---- MODULE Spec2Model ----
(***************************************************************************)
(* Downtown boundary analysis (DowntownAnalyzer) and the Downtown          *)
(* Mixed-Use Readiness score (DMURCalculator) of dmur_analysis.            *)
(*                                                                         *)
(* Numbers.  Coordinates are integers in units of 0.001 degree ("u"); a    *)
(* point is <<lon, lat>>, the order of the code's coords arrays.  Floats   *)
(* are fixed-point integers whose unit is stated where they are defined;   *)
(* Python's round() is round-half-to-even on those integers.               *)
(*                                                                         *)
(* Libraries.  scipy's Delaunay and ConvexHull, shapely's Polygon,         *)
(* unary_union, buffer, contains and area, sklearn's KernelDensity and     *)
(* numpy's percentile are modelled by what they document: Delaunay yields  *)
(* SOME triangulation whose triangles have empty circumcircles (cocircular *)
(* grid nodes admit several, so the choice is nondeterministic), contains  *)
(* is membership in the interior, and so on.                               *)
(***************************************************************************)
EXTENDS Integers, Sequences, FiniteSets, TLC

VARIABLES
    config,             \* DowntownAnalyzer.config (AnalysisConfig)
    city_name,          \* DowntownAnalyzer.city_name
    businesses_df,      \* DowntownAnalyzer.businesses_df
    density_grid,       \* DowntownAnalyzer.density_grid
    density_coords,     \* DowntownAnalyzer.density_coords
    downtown_boundary,  \* DowntownAnalyzer.downtown_boundary
    dmur_config,        \* DMURCalculator.config (DMURConfig)
    args,               \* the arguments and the local variables of the call under way
    ret,                \* what the last call returned or raised
    log                 \* the logger records the last call emitted

vars == <<config, city_name, businesses_df, density_grid, density_coords,
          downtown_boundary, dmur_config, args, ret, log>>

\* Python's None among values of another kind: a field holds None or Some(v)
None == <<>>
Some(v) == <<v>>
Val(field) == field[1]

\* ---------------------------------------------------------------- numbers

Min(a, b) == IF a <= b THEN a ELSE b
Max(a, b) == IF a >= b THEN a ELSE b
Abs(a) == IF a < 0 THEN -a ELSE a

SetMin(S) == CHOOSE m \in S : \A e \in S : m <= e
SetMax(S) == CHOOSE m \in S : \A e \in S : m >= e

RECURSIVE SumSeq(_)
SumSeq(s) == IF s = <<>> THEN 0 ELSE Head(s) + SumSeq(Tail(s))

RECURSIVE SumOver(_, _)
\* the sum of f[e] over the elements e of the set S
SumOver(S, f) ==
    IF S = {} THEN 0
    ELSE LET e == CHOOSE e \in S : TRUE IN f[e] + SumOver(S \ {e}, f)

RECURSIVE SqrtSearch(_, _, _)
SqrtSearch(n, lo, hi) ==
    IF lo >= hi THEN lo
    ELSE LET mid == (lo + hi + 1) \div 2
         IN IF mid * mid <= n THEN SqrtSearch(n, mid, hi)
            ELSE SqrtSearch(n, lo, mid - 1)

\* np.sqrt on a non-negative fixed-point number: the floor of the root
ISqrt(n) == SqrtSearch(n, 0, Min(n, 46340))

\* round(p / q) for q > 0, ties to the even neighbour: Python's round()
RoundDiv(p, q) ==
    LET f == p \div q
        r == p - f * q
    IN IF 2 * r < q THEN f
       ELSE IF 2 * r > q THEN f + 1
       ELSE IF f % 2 = 0 THEN f ELSE f + 1

\* ---------------------------------------------------------------- geometry

X(p) == p[1]
Y(p) == p[2]

Cross(o, a, b) == (X(a) - X(o)) * (Y(b) - Y(o)) - (Y(a) - Y(o)) * (X(b) - X(o))
Dot(o, a, b) == (X(a) - X(o)) * (X(b) - X(o)) + (Y(a) - Y(o)) * (Y(b) - Y(o))
Dist2(a, b) == (X(a) - X(b)) * (X(a) - X(b)) + (Y(a) - Y(b)) * (Y(a) - Y(b))

Collinear(P) == \A a \in P : \A b \in P : \A c \in P : Cross(a, b, c) = 0

\* the three corners of triangle t, counter-clockwise
Corners(t) ==
    CHOOSE s \in {<<a, b, c>> : a \in t, b \in t, c \in t} : Cross(s[1], s[2], s[3]) > 0

\* > 0: d is strictly inside the circle through the corners of t; = 0: on it
InCircle(t, d) ==
    LET s == Corners(t)
        ax == X(s[1]) - X(d)   ay == Y(s[1]) - Y(d)
        bx == X(s[2]) - X(d)   by == Y(s[2]) - Y(d)
        cx == X(s[3]) - X(d)   cy == Y(s[3]) - Y(d)
    IN   (ax * ax + ay * ay) * (bx * cy - cx * by)
       - (bx * bx + by * by) * (ax * cy - cx * ay)
       + (cx * cx + cy * cy) * (ax * by - bx * ay)

Triples(P) == {t \in {{a, b, c} : a \in P, b \in P, c \in P} : Cardinality(t) = 3 /\ ~Collinear(t)}

\* the triangles over P with no point of P strictly inside their circumcircle
EmptyTris(P) == {t \in Triples(P) : \A d \in P \ t : InCircle(t, d) <= 0}

\* the points of P on the circumcircle of t: a convex face of the Delaunay
\* subdivision of P
CellOf(t, P) == {d \in P : d \in t \/ InCircle(t, d) = 0}

RECURSIVE PolyTris(_)
\* every triangulation of the convex polygon with corner set V
PolyTris(V) ==
    IF Cardinality(V) < 3 THEN {{}}
    ELSE LET a == CHOOSE p \in V : \A q \in V : X(p) < X(q) \/ (X(p) = X(q) /\ Y(p) <= Y(q))
             b == CHOOSE q \in V \ {a} : \A r \in V \ {a, q} : Cross(a, q, r) > 0
         IN UNION {
              LET V1 == {p \in V : Cross(b, c, p) < 0} \cup {b, c}
                  V2 == {p \in V : Cross(c, a, p) < 0} \cup {c, a}
              IN {{{a, b, c}} \cup T1 \cup T2 : T1 \in PolyTris(V1), T2 \in PolyTris(V2)}
              : c \in V \ {a, b}}

RECURSIVE CellProduct(_)
CellProduct(cells) ==
    IF cells = {} THEN {{}}
    ELSE LET c == CHOOSE c \in cells : TRUE
         IN {T \cup R : T \in PolyTris(c), R \in CellProduct(cells \ {c})}

\* scipy.spatial.Delaunay(coords).simplices: the triangulations Qhull may
\* return; {} when Qhull raises QhullError (fewer than 3 points, or all on a line)
DelaunayTriangulations(P) ==
    IF Cardinality(P) < 3 \/ Collinear(P) THEN {}
    ELSE CellProduct({CellOf(t, P) : t \in EmptyTris(P)})

\* scipy.spatial.ConvexHull(coords).vertices: the extreme points of P
HullVertices(P) ==
    {p \in P : \E q \in P \ {p} : \A r \in P \ {p, q} :
        Cross(p, q, r) > 0 \/ (Cross(p, q, r) = 0 /\ Dot(p, q, r) > 0 /\ Dist2(p, r) < Dist2(p, q))}

\* ---------------------------------------------------------------- shapely

\* A geometry is the union of a set of triangles with pairwise disjoint
\* interiors ("union"), or a convex polygon given by its corners ("polygon"),
\* widened by buf (u) on every side.
Polygon(V) == [kind |-> "polygon", verts |-> V, tris |-> {}, buf |-> 0]
UnaryUnion(T) == [kind |-> "union", verts |-> {}, tris |-> T, buf |-> 0]
Buffer(g, d) == [g EXCEPT !.buf = d]

Edges(t) == {e \in SUBSET t : Cardinality(e) = 2}

\* the directed sides b -> c of the convex polygon with corners V, interior on the left
Sides(V) ==
    {s \in V \X V : s[1] # s[2] /\ \A r \in V \ {s[1], s[2]} : Cross(s[1], s[2], r) > 0}

InTri(t, p) ==
    LET s == Corners(t)
    IN Cross(s[1], s[2], p) > 0 /\ Cross(s[2], s[3], p) > 0 /\ Cross(s[3], s[1], p) > 0

InClosedTri(t, p) ==
    LET s == Corners(t)
    IN Cross(s[1], s[2], p) >= 0 /\ Cross(s[2], s[3], p) >= 0 /\ Cross(s[3], s[1], p) >= 0

OnOpenSeg(e, p) ==
    \E a \in e : \E b \in e \ {a} : Cross(a, b, p) = 0 /\ Dot(p, a, b) < 0

TrisWithEdge(T, e) == {t \in T : e \subseteq t}

\* p is in the interior of the unbuffered geometry
InInterior(g, p) ==
    IF g.kind = "polygon"
    THEN Sides(g.verts) # {} /\ \A s \in Sides(g.verts) : Cross(s[1], s[2], p) > 0
    ELSE \/ \E t \in g.tris : InTri(t, p)
         \/ \E t \in g.tris : \E e \in Edges(t) :
                OnOpenSeg(e, p) /\ Cardinality(TrisWithEdge(g.tris, e)) = 2
         \/ /\ \E t \in g.tris : p \in t
            /\ \A t \in g.tris : \A e \in Edges(t) :
                   p \in e => Cardinality(TrisWithEdge(g.tris, e)) = 2

\* p is in the unbuffered geometry or on its edge
InClosure(g, p) ==
    IF g.kind = "polygon"
    THEN Sides(g.verts) # {} /\ \A s \in Sides(g.verts) : Cross(s[1], s[2], p) >= 0
    ELSE \E t \in g.tris : InClosedTri(t, p)

\* the segments that bound the unbuffered geometry
Outline(g) ==
    IF g.kind = "polygon" THEN {{s[1], s[2]} : s \in Sides(g.verts)}
    ELSE {e \in UNION {Edges(t) : t \in g.tris} : Cardinality(TrisWithEdge(g.tris, e)) = 1}

\* p is nearer than d to the segment e
NearSeg(e, p, d) ==
    \E a \in e : \E b \in e \ {a} :
        LET t == Dot(a, p, b)
            l2 == Dist2(a, b)
        IN IF t <= 0 THEN Dist2(a, p) < d * d
           ELSE IF t >= l2 THEN Dist2(b, p) < d * d
           ELSE Cross(a, b, p) * Cross(a, b, p) < d * d * l2

Corner(g) == g.verts \cup UNION g.tris

\* p is within the envelope of g: the test shapely makes first
InEnvelope(g, p) ==
    /\ Corner(g) # {}
    /\ X(p) >= SetMin({X(c) : c \in Corner(g)}) - g.buf
    /\ X(p) <= SetMax({X(c) : c \in Corner(g)}) + g.buf
    /\ Y(p) >= SetMin({Y(c) : c \in Corner(g)}) - g.buf
    /\ Y(p) <= SetMax({Y(c) : c \in Corner(g)}) + g.buf

\* geometry.contains(Point(p)): p is in the interior of g; a point on the
\* edge of g is not contained.  The buffer's round joins are exact circles.
Contains(g, p) ==
    /\ InEnvelope(g, p)
    /\ IF g.buf > 0
       THEN InClosure(g, p) \/ \E e \in Outline(g) : NearSeg(e, p, g.buf)
       ELSE InInterior(g, p)

PiMilli == 3142

\* twice geometry.area, in u^2.  A buffered geometry has the area of the
\* Steiner formula A + P d + pi d^2, exact for a convex geometry and an upper
\* estimate for a union with notches.
Area2(g) ==
    LET flat == IF g.kind = "polygon"
                THEN IF g.verts = {} THEN 0
                     ELSE LET a == CHOOSE p \in g.verts : TRUE
                          IN SumOver(Sides(g.verts), [s \in Sides(g.verts) |-> Cross(a, s[1], s[2])])
                ELSE SumOver(g.tris, [t \in g.tris |->
                         LET s == Corners(t) IN Cross(s[1], s[2], s[3])])
        rim == SumOver(Outline(g), [e \in Outline(g) |->
                   LET a == CHOOSE a \in e : TRUE
                       b == CHOOSE b \in e : b # a
                   IN ISqrt(1000000 * Dist2(a, b))])
    IN IF g.buf > 0
       THEN flat + (2 * rim * g.buf) \div 1000 + (2 * PiMilli * g.buf * g.buf) \div 1000
       ELSE flat

\* ---------------------------------------------------------------- records

\* A dict is a record; a key the dict lacks is a field the record lacks.
Has(dict, key) == key \in DOMAIN dict

\* an exception: its class and the start of its message
Raise(class, msg) == [raised |-> class, msg |-> msg]
NoError == [raised |-> "None", msg |-> ""]

COMMERCIAL_TYPES == {"shop", "amenity", "office", "tourism", "craft", "healthcare"}

COMMERCIAL_AMENITIES ==
    {"restaurant", "cafe", "bar", "pub", "fast_food", "food_court", "ice_cream",
     "bank", "atm", "cinema", "theatre", "nightclub", "casino", "pharmacy",
     "clinic", "doctors", "dentist", "fuel", "car_wash", "car_rental",
     "post_office", "courier", "internet_cafe", "library", "coworking_space"}

\* business.get(key, ''): the value, or '' when the key is absent
GetOr(business, key, default) ==
    IF Has(business, key) THEN business[key] ELSE default

\* the filter with the subtype tests of building and leisure before the test
\* of the type table
IsCommercialBusinessSubtypeFirst(business) ==
    LET btype == GetOr(business, "business_type", "")
        subtype == GetOr(business, "business_subtype", "")
    IN IF btype = "building" THEN subtype \in {"commercial", "retail", "office", "hotel"}
       ELSE IF btype = "leisure"
            THEN subtype \in {"fitness_centre", "sports_centre", "bowling_alley"}
       ELSE IF btype \notin COMMERCIAL_TYPES THEN FALSE
       ELSE IF btype = "amenity" /\ subtype \notin COMMERCIAL_AMENITIES THEN FALSE
       ELSE TRUE

\* the filter with the types of its unreachable branches in the table
IsCommercialBusinessWithBuildings(business) ==
    LET btype == GetOr(business, "business_type", "")
        subtype == GetOr(business, "business_subtype", "")
    IN IF btype \notin COMMERCIAL_TYPES \cup {"building", "leisure"} THEN FALSE
       ELSE IF btype = "amenity" /\ subtype \notin COMMERCIAL_AMENITIES THEN FALSE
       ELSE IF btype = "building" /\ subtype \notin {"commercial", "retail", "office", "hotel"}
            THEN FALSE
       ELSE IF btype = "leisure"
               /\ subtype \notin {"fitness_centre", "sports_centre", "bowling_alley"}
            THEN FALSE
       ELSE TRUE

IsCommercialBusiness(business) ==
    LET btype == GetOr(business, "business_type", "")
        subtype == GetOr(business, "business_subtype", "")
    IN IF btype \notin COMMERCIAL_TYPES THEN FALSE
       ELSE IF btype = "amenity" /\ subtype \notin COMMERCIAL_AMENITIES THEN FALSE
       ELSE IF btype = "building" /\ subtype \notin {"commercial", "retail", "office", "hotel"}
            THEN FALSE
       ELSE IF btype = "leisure"
               /\ subtype \notin {"fitness_centre", "sports_centre", "bowling_alley"}
            THEN FALSE
       ELSE TRUE

\* not business.get(key): the key is absent or its value is 0
Falsy(business, key) == ~Has(business, key) \/ business[key] = 0

\* the loop of _load_business_data keeps this record
Kept(cfg, business) ==
    /\ ~(Falsy(business, "lat") \/ Falsy(business, "lon"))
    /\ cfg.commercial_only => IsCommercialBusiness(business)

\* the key whose lookup business[key] raises KeyError in the row literal, or "None"
MissingKey(business) ==
    IF ~Has(business, "id") THEN "id"
    ELSE IF ~Has(business, "name") THEN "name"
    ELSE IF ~Has(business, "business_type") THEN "business_type"
    ELSE IF ~Has(business, "business_subtype") THEN "business_subtype"
    ELSE "None"

Row(business) ==
    [id |-> business.id, lat |-> business.lat, lon |-> business.lon,
     name |-> business.name, type |-> business.business_type,
     subtype |-> business.business_subtype]

\* a focus area is <<min_lat, min_lon, max_lat, max_lon>> in units of u / FocusUnit,
\* the unit in which the 19 histogram bins and the 2% padding are whole numbers
FocusUnit == 1900

\* the filter with a box that is open: a point on its edge is dropped
ApplyFocusAreaOpen(df, focus_area) ==
    LET mask(row) == /\ row.lat * FocusUnit > focus_area[1] /\ row.lat * FocusUnit < focus_area[3]
                     /\ row.lon * FocusUnit > focus_area[2] /\ row.lon * FocusUnit < focus_area[4]
    IN SelectSeq(df, mask)

ApplyFocusArea(df, focus_area) ==
    LET min_lat == focus_area[1]
        min_lon == focus_area[2]
        max_lat == focus_area[3]
        max_lon == focus_area[4]
        mask(row) == /\ row.lat * FocusUnit >= min_lat /\ row.lat * FocusUnit <= max_lat
                     /\ row.lon * FocusUnit >= min_lon /\ row.lon * FocusUnit <= max_lon
    IN SelectSeq(df, mask)

Column(df, col) == {df[i][col] : i \in DOMAIN df}

\* ---------------------------------------------------------------- auto focus

MinSamples == 10
HistEdges == 20
WindowSize == 3

\* sklearn.cluster.DBSCAN(eps, min_samples).fit(coords).labels_ with
\* eps = min_range / 100: label[i] is the cluster of row i, -1 for noise.
\* Clusters are numbered in the order of their first core row; a border row
\* belongs to the first cluster that reaches it.
Near(df, i, j, min_range) ==
    10000 * Dist2(<<df[i].lon, df[i].lat>>, <<df[j].lon, df[j].lat>>) <= min_range * min_range

IsCore(df, i, min_range) ==
    Cardinality({j \in DOMAIN df : Near(df, i, j, min_range)}) >= MinSamples

RECURSIVE Reach(_, _, _, _)
\* the rows density-reachable from the rows in seen; cores are the core rows
Reach(df, cores, seen, min_range) ==
    LET more == {j \in DOMAIN df \ seen :
                    \E i \in seen \cap cores : Near(df, i, j, min_range)}
    IN IF more = {} THEN seen ELSE Reach(df, cores, seen \cup more, min_range)

RECURSIVE Label(_, _, _, _, _, _)
Label(df, cores, min_range, i, next, labels) ==
    IF i > Len(df) THEN labels
    ELSE IF labels[i] # -1 \/ i \notin cores
         THEN Label(df, cores, min_range, i + 1, next, labels)
         ELSE LET members == {j \in Reach(df, cores, {i}, min_range) : labels[j] = -1}
              IN Label(df, cores, min_range, i + 1, next + 1,
                       [j \in DOMAIN df |-> IF j \in members THEN next ELSE labels[j]])

DBSCANLabels(df, min_range) ==
    LET cores == {i \in DOMAIN df : IsCore(df, i, min_range)}
    IN Label(df, cores, min_range, 1, 0, [j \in DOMAIN df |-> -1])

\* the bin of value v among HistEdges - 1 equal bins over [lo, lo + range];
\* the last bin includes its right edge
BinOf(v, lo, range) == Min(HistEdges - 2, ((v - lo) * (HistEdges - 1)) \div range)

\* the window around the peak that is not cut off at the first edge
WindowStartUnclipped(peak) == peak - WindowSize \div 2

\* the first and the last edge of the window around the bin peak
WindowStart(peak) == Max(0, peak - WindowSize \div 2)
WindowEnd(peak) == Min(HistEdges - 1, peak + WindowSize \div 2 + 1)

\* the choice of the cluster that takes the last of the largest clusters
LargestClusterLabelLast(labels) ==
    LET unique_labels == {labels[j] : j \in DOMAIN labels} \ {-1}
        count(l) == Cardinality({j \in DOMAIN labels : labels[j] = l})
    IN CHOOSE l \in unique_labels :
           \A m \in unique_labels : count(l) > count(m) \/ (count(l) = count(m) /\ l >= m)

\* unique_labels[np.argmax(counts)]: the largest cluster, the first of the
\* sorted labels when several are the largest
LargestClusterLabel(labels) ==
    LET unique_labels == {labels[j] : j \in DOMAIN labels} \ {-1}
        count(l) == Cardinality({j \in DOMAIN labels : labels[j] = l})
    IN CHOOSE l \in unique_labels :
           \A m \in unique_labels : count(l) > count(m) \/ (count(l) = count(m) /\ l <= m)

Found(focus_area) == [raised |-> NoError, focus_area |-> focus_area]
Failed(exception) == [raised |-> exception, focus_area |-> None]

\* _auto_determine_focus_area: the focus area, or the exception raised
AutoDetermineFocusArea(df) ==
    IF df = <<>> THEN Failed(Raise("KeyError", "lat"))
    ELSE LET lats == Column(df, "lat")
             lons == Column(df, "lon")
         IN
         IF Len(df) < 10
         THEN Found(<<SetMin(lats) * FocusUnit, SetMin(lons) * FocusUnit,
                      SetMax(lats) * FocusUnit, SetMax(lons) * FocusUnit>>)
         ELSE
         LET lat_range == SetMax(lats) - SetMin(lats)
             lon_range == SetMax(lons) - SetMin(lons)
             min_range == Min(lat_range, lon_range)
         IN
         \* DBSCAN rejects eps = 0
         IF min_range = 0 THEN Failed(Raise("ValueError", "eps"))
         ELSE
         LET labels == DBSCANLabels(df, min_range)
             unique_labels == {labels[j] : j \in DOMAIN df} \ {-1}
             count(l) == Cardinality({j \in DOMAIN df : labels[j] = l})
             padding == (min_range * 2 * FocusUnit) \div 100
         IN
         IF unique_labels # {}
         THEN LET largest_cluster_label == LargestClusterLabel(labels)
                  cluster == {j \in DOMAIN df : labels[j] = largest_cluster_label}
              IN Found(<<SetMin({df[j].lat : j \in cluster}) * FocusUnit - padding,
                         SetMin({df[j].lon : j \in cluster}) * FocusUnit - padding,
                         SetMax({df[j].lat : j \in cluster}) * FocusUnit + padding,
                         SetMax({df[j].lon : j \in cluster}) * FocusUnit + padding>>)
         ELSE
         LET hist(a, b) == Cardinality({j \in DOMAIN df :
                               /\ BinOf(df[j].lat, SetMin(lats), lat_range) = a
                               /\ BinOf(df[j].lon, SetMin(lons), lon_range) = b})
             \* the bins that hold a row: the highest bin is one of them
             occupied == {<<BinOf(df[j].lat, SetMin(lats), lat_range),
                            BinOf(df[j].lon, SetMin(lons), lon_range)>> : j \in DOMAIN df}
             \* np.argmax: the first of the highest bins in row-major order
             peak_idx == CHOOSE k \in occupied :
                             \A m \in occupied :
                                 \/ hist(k[1], k[2]) > hist(m[1], m[2])
                                 \/ /\ hist(k[1], k[2]) = hist(m[1], m[2])
                                    /\ (k[1] < m[1] \/ (k[1] = m[1] /\ k[2] <= m[2]))
             lat_start == WindowStart(peak_idx[1])
             lat_end == WindowEnd(peak_idx[1])
             lon_start == WindowStart(peak_idx[2])
             lon_end == WindowEnd(peak_idx[2])
             \* edge k of np.linspace(lo, lo + range, 20), in focus units
             edge(lo, range, k) == lo * FocusUnit + k * range * (FocusUnit \div (HistEdges - 1))
         IN Found(<<edge(SetMin(lats), lat_range, lat_start) - padding,
                    edge(SetMin(lons), lon_range, lon_start) - padding,
                    edge(SetMin(lats), lat_range, lat_end) + padding,
                    edge(SetMin(lons), lon_range, lon_end) + padding>>)

\* the records _auto_determine_focus_area logs
AutoFocusLog(df) ==
    IF Len(df) < 10 THEN <<>>
    ELSE LET lats == Column(df, "lat")
             lons == Column(df, "lon")
             min_range == Min(SetMax(lats) - SetMin(lats), SetMax(lons) - SetMin(lons))
         IN <<"Auto-detecting downtown focus area using density clustering">>
            \o (IF min_range = 0 THEN <<>>
                ELSE LET labels == DBSCANLabels(df, min_range)
                     IN IF \E j \in DOMAIN df : labels[j] # -1
                        THEN <<"Found main cluster">>
                        ELSE <<"Using fallback: peak density area from histogram">>)

RECURSIVE RemoveWhileIterating(_, _, _)
\* a loop that removes the skipped records from the list it iterates over:
\* the record after a removed one is never looked at
RemoveWhileIterating(cfg, businesses, i) ==
    IF i > Len(businesses) THEN businesses
    ELSE IF Kept(cfg, businesses[i]) THEN RemoveWhileIterating(cfg, businesses, i + 1)
    ELSE RemoveWhileIterating(cfg,
             SubSeq(businesses, 1, i - 1) \o SubSeq(businesses, i + 1, Len(businesses)),
             i + 1)

CommercialFilterSkipping(cfg, businesses) == RemoveWhileIterating(cfg, businesses, 1)

\* the loop of _load_business_data: the records it does not skip, in their order
CommercialFilter(cfg, businesses) == SelectSeq(businesses, LAMBDA b : Kept(cfg, b))

\* the load with the two tests of the focus selection in the other order
LoadBusinessDataAutoFirst(cfg, data) ==
    LET kept == CommercialFilter(cfg, data.businesses)
        bad == {i \in DOMAIN kept : MissingKey(kept[i]) # "None"}
        temp_df == [i \in DOMAIN kept |-> Row(kept[i])]
    IN IF bad # {}
       THEN [raised |-> Raise("KeyError", MissingKey(kept[SetMin(bad)])), df |-> <<>>]
       ELSE IF cfg.auto_focus
       THEN LET auto == AutoDetermineFocusArea(temp_df)
            IN IF auto.raised = NoError
               THEN [raised |-> NoError, df |-> ApplyFocusArea(temp_df, auto.focus_area)]
               ELSE [raised |-> auto.raised, df |-> <<>>]
       ELSE IF cfg.focus_area # None
       THEN IF temp_df = <<>>
            THEN [raised |-> Raise("KeyError", "lat"), df |-> <<>>]
            ELSE [raised |-> NoError, df |-> ApplyFocusArea(temp_df, cfg.focus_area)]
       ELSE [raised |-> NoError, df |-> temp_df]

\* _load_business_data: [raised, df]; df is the new businesses_df when
\* nothing is raised
LoadBusinessData(cfg, data) ==
    LET kept == CommercialFilter(cfg, data.businesses)
        bad == {i \in DOMAIN kept : MissingKey(kept[i]) # "None"}
        temp_df == [i \in DOMAIN kept |-> Row(kept[i])]
    IN IF bad # {}
       THEN [raised |-> Raise("KeyError", MissingKey(kept[SetMin(bad)])), df |-> <<>>]
       ELSE IF cfg.focus_area # None
       THEN IF temp_df = <<>>
            THEN [raised |-> Raise("KeyError", "lat"), df |-> <<>>]
            ELSE [raised |-> NoError, df |-> ApplyFocusArea(temp_df, cfg.focus_area)]
       ELSE IF cfg.auto_focus
       THEN LET auto == AutoDetermineFocusArea(temp_df)
            IN IF auto.raised = NoError
               THEN [raised |-> NoError, df |-> ApplyFocusArea(temp_df, auto.focus_area)]
               ELSE [raised |-> auto.raised, df |-> <<>>]
       ELSE [raised |-> NoError, df |-> temp_df]

\* the records _load_business_data logs, up to the exception when it raises one
LoadLog(cfg, data) ==
    LET kept == CommercialFilter(cfg, data.businesses)
        load == LoadBusinessData(cfg, data)
    IN <<"Loading business data">>
       \o (IF \E i \in DOMAIN kept : MissingKey(kept[i]) # "None" THEN <<>>
           ELSE <<"Loaded businesses total">>
                \o (IF cfg.focus_area = None /\ cfg.auto_focus
                    THEN AutoFocusLog([i \in DOMAIN kept |-> Row(kept[i])])
                    ELSE <<>>)
                \o (IF load.raised # NoError THEN <<>>
                    ELSE <<"Using businesses in analysis area">>
                         \o (IF Len(load.df) > 0 THEN <<"Business types">> ELSE <<>>)))

\* ---------------------------------------------------------------- density

MinPadding == 5
KScale == 10000

\* floor(KScale * exp(-d2 / (2 h^2))) for d2 = 0, 1, .. (u^2) and a bandwidth of
\* h = 1 u and h = 2 u, up to the last d2 where it is not 0
Gaussian1 ==
    <<
       10000, 6065, 3678, 2231, 1353, 820, 497, 301, 183, 111, 67, 40,
       24, 15, 9, 5, 3, 2, 1
    >>

Gaussian2 ==
    <<
       10000, 8824, 7788, 6872, 6065, 5352, 4723, 4168, 3678, 3246, 2865, 2528,
       2231, 1969, 1737, 1533, 1353, 1194, 1053, 930, 820, 724, 639, 564,
       497, 439, 387, 342, 301, 266, 235, 207, 183, 161, 142, 125,
       111, 98, 86, 76, 67, 59, 52, 46, 40, 36, 31, 28,
       24, 21, 19, 17, 15, 13, 11, 10, 9, 8, 7, 6,
       5, 4, 4, 3, 3, 2, 2, 2, 2, 1, 1, 1,
       1, 1
    >>

\* the Gaussian kernel of sklearn's KernelDensity at squared distance d2 (u^2)
Kernel(d2, h) ==
    LET table == IF h = 1 THEN Gaussian1 ELSE Gaussian2
    IN IF d2 >= Len(table) THEN 0 ELSE table[d2 + 1]

\* np.arange(start, stop, step)
Arange(start, stop, step) == {start + k * step : k \in 0 .. ((stop - start - 1) \div step)}

\* _calculate_density_grid: [density_grid, density_coords].  density_grid is the
\* set of <<node, density>> with node = <<lon, lat>> and density =
\* np.exp(kde.score_samples(node)) in units of 1 / (KScale * N * 2 pi h^2), a
\* unit that is the same at every node of a grid.
CalculateDensityGrid(df, cfg) ==
    LET lats == Column(df, "lat")
        lons == Column(df, "lon")
        padding == Max(MinPadding, (SetMax(lats) - SetMin(lats)) \div 10)
        lat_range == Arange(SetMin(lats) - padding, SetMax(lats) + padding, cfg.grid_size)
        lon_range == Arange(SetMin(lons) - padding, SetMax(lons) + padding, cfg.grid_size)
        density(node) ==
            SumSeq([i \in DOMAIN df |->
                      Kernel(Dist2(node, <<df[i].lon, df[i].lat>>), cfg.bandwidth)])
    IN [density_grid |-> {<<node, density(node)>> : node \in lon_range \X lat_range},
        density_coords |-> [lat_range |-> lat_range, lon_range |-> lon_range]]

\* the k-th smallest value (k = 0, 1, ..) of the grid
Kth(grid, k) ==
    CHOOSE v \in {n[2] : n \in grid} :
        /\ Cardinality({n \in grid : n[2] < v}) <= k
        /\ k < Cardinality({n \in grid : n[2] <= v})

\* 100 * np.percentile(grid.ravel(), q): linear interpolation between the two
\* nearest ranks
Percentile100(grid, q) ==
    LET pos == (Cardinality(grid) - 1) * q
        lower == pos \div 100
        frac == pos % 100
    IN IF frac = 0 THEN 100 * Kth(grid, lower)
       ELSE 100 * Kth(grid, lower) + frac * (Kth(grid, lower + 1) - Kth(grid, lower))

\* the nodes of lat_grid[mask], lon_grid[mask] for mask = grid >= threshold
HighDensityMask(grid, q) ==
    LET threshold == Percentile100(grid, q)
    IN {n[1] : n \in {m \in grid : 100 * m[2] >= threshold}}

RelaxedPercentile(q) == Max(70, q - 20)

RECURSIVE LowerUntilEnough(_, _)
\* the selection of a loop that lowers the percentile by 20 until 3 nodes
\* qualify or the percentile is 0
LowerUntilEnough(grid, q) ==
    IF Cardinality(HighDensityMask(grid, q)) >= 3 \/ q = 0 THEN HighDensityMask(grid, q)
    ELSE LowerUntilEnough(grid, Max(0, q - 20))

IdentifyHighDensityAreasLooping(grid, cfg) ==
    LET first == HighDensityMask(grid, cfg.density_threshold_percentile)
    IN [points |-> LowerUntilEnough(grid, cfg.density_threshold_percentile),
        lowered |-> Cardinality(first) < 3]

\* _identify_high_density_areas: the selected nodes and whether the threshold
\* was lowered
IdentifyHighDensityAreas(grid, cfg) ==
    LET first == HighDensityMask(grid, cfg.density_threshold_percentile)
    IN IF Cardinality(first) < 3
       THEN [points |-> HighDensityMask(grid, RelaxedPercentile(cfg.density_threshold_percentile)),
             lowered |-> TRUE]
       ELSE [points |-> first, lowered |-> FALSE]

\* ---------------------------------------------------------------- boundary

LongestEdge2(t) == SetMax({Dist2(a, b) : a \in t, b \in t})

\* the comparison made on the squares of the two sides
PassesAlphaSquared(t, alpha) == LongestEdge2(t) < alpha * alpha

\* the comparison that keeps a triangle whose longest edge is alpha
PassesAlphaInclusive(t, alpha) == alpha > 0 /\ LongestEdge2(t) <= alpha * alpha

\* max(edge_lengths) < alpha
PassesAlpha(t, alpha) == alpha > 0 /\ LongestEdge2(t) < alpha * alpha

ApplyBuffer(boundary, cfg) ==
    IF cfg.buffer_distance > 0 THEN Buffer(boundary, cfg.buffer_distance) ELSE boundary

BufferLog(cfg) == IF cfg.buffer_distance > 0 THEN <<"Applied buffer">> ELSE <<>>

\* the fitting that takes the convex hull unless every triangle passes the
\* alpha test
CreateDowntownBoundaryHullUnlessAll(P, cfg) ==
    LET delaunay == DelaunayTriangulations(P)
    IN
    IF delaunay = {}
    THEN {[raised |-> Raise("QhullError", ""), boundary |-> None,
           log |-> <<"Creating downtown boundary",
                     "Alpha shape failed, falling back to convex hull">>]}
    ELSE {LET triangles == {t \in simplices : PassesAlpha(t, cfg.alpha)}
          IN IF triangles = simplices
             THEN [raised |-> NoError,
                   boundary |-> Some(ApplyBuffer(UnaryUnion(triangles), cfg)),
                   log |-> <<"Creating downtown boundary", "Created alpha shape boundary">>
                           \o BufferLog(cfg)]
             ELSE [raised |-> NoError,
                   boundary |-> Some(ApplyBuffer(Polygon(HullVertices(P)), cfg)),
                   log |-> <<"Creating downtown boundary",
                             "Alpha shape failed, falling back to convex hull",
                             "Created convex hull boundary">> \o BufferLog(cfg)]
          : simplices \in delaunay}

\* _create_downtown_boundary on the node set P: the outcomes [raised, boundary,
\* log] it can have, one for each triangulation Delaunay may return
CreateDowntownBoundary(P, cfg) ==
    LET delaunay == DelaunayTriangulations(P)
    IN
    IF delaunay = {}
    THEN \* Delaunay raises, and so does ConvexHull in the except branch
         {[raised |-> Raise("QhullError", ""), boundary |-> None,
           log |-> <<"Creating downtown boundary",
                     "Alpha shape failed, falling back to convex hull">>]}
    ELSE {LET triangles == {t \in simplices : PassesAlpha(t, cfg.alpha)}
          IN IF triangles # {}
             THEN [raised |-> NoError,
                   boundary |-> Some(ApplyBuffer(UnaryUnion(triangles), cfg)),
                   log |-> <<"Creating downtown boundary", "Created alpha shape boundary">>
                           \o BufferLog(cfg)]
             ELSE [raised |-> NoError,
                   boundary |-> Some(ApplyBuffer(Polygon(HullVertices(P)), cfg)),
                   log |-> <<"Creating downtown boundary",
                             "Alpha shape failed, falling back to convex hull",
                             "Created convex hull boundary">> \o BufferLog(cfg)]
          : simplices \in delaunay}

\* ---------------------------------------------------------------- results

\* 1000 * np.cos(np.radians(lat)) for lat in u, by Bhaskara's approximation
\* on whole degrees
CosMilli(lat) ==
    LET x == lat \div 1000
    IN ((32400 - 4 * x * x) * 1000) \div (32400 + x * x)

KmPerDegLat == 111

\* area_km2 in units of 0.0001 km^2 for a boundary of doubled area area2 (u^2)
AreaKm2(area2, lat_avg) ==
    LET km_per_deg_lon == KmPerDegLat * CosMilli(lat_avg)
    IN (((area2 * km_per_deg_lon) \div 100) * KmPerDegLat) \div 2000

Mean(df, col) == SumSeq([i \in DOMAIN df |-> df[i][col]]) \div Len(df)

\* the test made with covers(), which counts the points of the edge
BusinessesInDowntownCovers(df, boundary) ==
    SelectSeq(df, LAMBDA row :
        \/ Contains(boundary, <<row.lon, row.lat>>)
        \/ (boundary.buf = 0 /\ InClosure(boundary, <<row.lon, row.lat>>)))

BusinessesInDowntown(df, boundary) ==
    SelectSeq(df, LAMBDA row : Contains(boundary, <<row.lon, row.lat>>))

\* the results with the zero test made on the rounded area
GenerateResultsRoundedGuard(city, df, boundary, grid, coords) ==
    LET downtown_businesses == BusinessesInDowntown(df, boundary)
        lat_avg == Mean(df, "lat")
        area_km2 == AreaKm2(Area2(boundary), lat_avg)
    IN [raised |-> "None",
        city |-> city,
        total_businesses |-> Len(df),
        downtown_businesses |-> Len(downtown_businesses),
        downtown_area_km2 |-> RoundDiv(area_km2, 100),
        business_density_per_km2 |->
            IF RoundDiv(area_km2, 100) > 0
            THEN RoundDiv(Len(downtown_businesses) * 100000, area_km2) ELSE 0,
        downtown_boundary |-> boundary,
        businesses_df |-> df,
        downtown_businesses_df |-> downtown_businesses,
        density_grid |-> grid,
        density_coords |-> coords]

\* _generate_results: downtown_area_km2 in 0.01 km^2, business_density_per_km2
\* in 0.1 per km^2
GenerateResults(city, df, boundary, grid, coords) ==
    LET downtown_businesses == BusinessesInDowntown(df, boundary)
        lat_avg == Mean(df, "lat")
        area_km2 == AreaKm2(Area2(boundary), lat_avg)
    IN [raised |-> "None",
        city |-> city,
        total_businesses |-> Len(df),
        downtown_businesses |-> Len(downtown_businesses),
        downtown_area_km2 |-> RoundDiv(area_km2, 100),
        business_density_per_km2 |->
            IF area_km2 > 0 THEN RoundDiv(Len(downtown_businesses) * 100000, area_km2) ELSE 0,
        downtown_boundary |-> boundary,
        businesses_df |-> df,
        downtown_businesses_df |-> downtown_businesses,
        density_grid |-> grid,
        density_coords |-> coords]

\* ---------------------------------------------------------------- DMUR scorer

\* a score s is the whole number ScoreScale * s
ScoreScale == 10000

\* ScoreScale * log10(k) for k = 1 .. 25
Log10 ==
    << 0, 3010, 4771, 6021, 6990, 7782, 8451, 9031, 9542, 10000,
       10414, 10792, 11139, 11461, 11761, 12041, 12304, 12553, 12788, 13010,
       13222, 13424, 13617, 13802, 13979 >>

\* p / q for q # 0, rounded toward zero
Quot(p, q) ==
    IF q > 0 THEN (IF p >= 0 THEN p \div q ELSE -((-p) \div q))
    ELSE (IF p >= 0 THEN -(p \div (-q)) ELSE (-p) \div (-q))

required_cols == {"lat", "lon", "bedrooms", "area_sqm", "price"}

\* a DataFrame of listings is [columns, rows]
DataFrame(columns, rows) == [columns |-> columns, rows |-> rows]

\* _load_listings_data on a DataFrame: a copy of it
LoadListingsData(data) == DataFrame(data.columns, data.rows)

\* required_cols in the order of the list literal
RequiredColsList == <<"lat", "lon", "bedrooms", "area_sqm", "price">>

\* ValueError(f"Missing required columns: {missing_cols}")
MissingColumns(missing_cols) ==
    [raised |-> "ValueError", msg |-> "Missing required columns", cols |-> missing_cols]

\* the filter that validates only the columns it reads itself
FilterDowntownListingsLatLon(listings_df, boundary) ==
    LET missing_cols == SelectSeq(<<"lat", "lon">>, LAMBDA col : col \notin listings_df.columns)
        in_downtown(row) == Contains(boundary, <<row.lon, row.lat>>)
    IN IF missing_cols # <<>>
       THEN [raised |-> MissingColumns(missing_cols), df |-> DataFrame({}, <<>>)]
       ELSE [raised |-> NoError,
             df |-> DataFrame(listings_df.columns, SelectSeq(listings_df.rows, in_downtown))]

\* _filter_downtown_listings: [raised, df]
FilterDowntownListings(listings_df, boundary) ==
    LET missing_cols == SelectSeq(RequiredColsList, LAMBDA col : col \notin listings_df.columns)
        in_downtown(row) == Contains(boundary, <<row.lon, row.lat>>)
    IN IF missing_cols # <<>>
       THEN [raised |-> MissingColumns(missing_cols), df |-> DataFrame({}, <<>>)]
       ELSE [raised |-> NoError,
             df |-> DataFrame(listings_df.columns, SelectSeq(listings_df.rows, in_downtown))]

\* the euclidean distance of two rows, in u / 100
Distance(a, b) == ISqrt(10000 * Dist2(<<a.lon, a.lat>>, <<b.lon, b.lat>>))

\* np.mean(np.min(cdist(listings, businesses), axis=1)), in u / 100
MeanMinDistance(listings, business_locations) ==
    SumSeq([i \in DOMAIN listings |->
              SetMin({Distance(listings[i], business_locations[j]) :
                          j \in DOMAIN business_locations})])
        \div Len(listings)

CalculateMxiScore(listings, business_locations, cfg) ==
    IF Len(business_locations) = 0 THEN 0
    ELSE LET avg_distance == MeanMinDistance(listings, business_locations)
         IN Max(0, ScoreScale
                     - Quot(avg_distance * ScoreScale, 100 * cfg.max_distance_threshold))

\* the score with the ratio of the metrics, len / max(len, 1), and no early return
CalculateBalanceScoreMax1(listings, business_locations, cfg) ==
    LET ratio_deviation ==
            Abs(Log10[Len(listings)] - Log10[Max(Len(business_locations), 1)]
                  - Log10[cfg.optimal_residential_ratio])
    IN Max(0, ScoreScale - ratio_deviation)

CalculateBalanceScore(listings, business_locations, cfg) ==
    IF Len(business_locations) = 0 THEN 0
    ELSE LET ratio_deviation ==
                 Abs(Log10[Len(listings)] - Log10[Len(business_locations)]
                       - Log10[cfg.optimal_residential_ratio])
         IN Max(0, ScoreScale - ratio_deviation)

\* the score without its cap at 1.0
CalculateDensityScoreUncapped(listings, boundary, cfg) ==
    LET lat_avg == Mean(listings, "lat")
        area_km2 == AreaKm2(Area2(boundary), lat_avg)
    IN IF area_km2 <= 0 THEN 0
       ELSE Quot(Len(listings) * 10000 * ScoreScale,
                 area_km2 * cfg.urban_density_benchmark)

CalculateDensityScore(listings, boundary, cfg) ==
    LET lat_avg == Mean(listings, "lat")
        area_km2 == AreaKm2(Area2(boundary), lat_avg)
    IN IF area_km2 <= 0 THEN 0
       ELSE Min(ScoreScale,
                Quot(Len(listings) * 10000 * ScoreScale,
                     area_km2 * cfg.urban_density_benchmark))

\* the counts of another column of the listings, area_sqm
ValueCountsOfArea(listings) ==
    [a \in Column(listings, "area_sqm") |->
        Cardinality({i \in DOMAIN listings : listings[i].area_sqm = a})]

\* listings_df['bedrooms'].value_counts()
ValueCounts(listings) ==
    [b \in Column(listings, "bedrooms") |->
        Cardinality({i \in DOMAIN listings : listings[i].bedrooms = b})]

\* the Shannon index over np.log(5) is
\* (log10 n - (1 / n) * sum of c * log10 c) / log10 5 for the counts c
CalculateDiversityScore(listings) ==
    LET bedroom_counts == ValueCounts(listings)
        n == Len(listings)
        shannon == n * Log10[n]
                     - SumOver(DOMAIN bedroom_counts,
                               [b \in DOMAIN bedroom_counts |->
                                   bedroom_counts[b] * Log10[bedroom_counts[b]]])
    IN IF Cardinality(DOMAIN bedroom_counts) <= 1 THEN 0
       ELSE Min(ScoreScale, (shannon * ScoreScale) \div (n * Log10[5]))

\* the records the four _calculate_*_score methods log: each logs its score
\* unless it returns early
ScoreLog(listings, boundary, business_locations) ==
    (IF Len(business_locations) = 0 THEN <<>> ELSE <<"MXI Score", "Balance Score">>)
    \o (IF AreaKm2(Area2(boundary), Mean(listings, "lat")) <= 0 THEN <<>>
        ELSE <<"Density Score">>)
    \o (IF Cardinality(DOMAIN ValueCounts(listings)) <= 1 THEN <<>>
        ELSE <<"Diversity Score">>)

\* float('inf')
Inf == None

CalculateAvgDistance(listings, business_locations) ==
    IF Len(business_locations) = 0 THEN Inf
    ELSE Some(MeanMinDistance(listings, business_locations))

Weights(cfg) ==
    [mxi_weight |-> cfg.mxi_weight, balance_weight |-> cfg.balance_weight,
     density_weight |-> cfg.density_weight, diversity_weight |-> cfg.diversity_weight]

\* round(score, 3), in units of 0.001
Round3(score) == RoundDiv(score, ScoreScale \div 1000)

\* _empty_results
EmptyResults(city, cfg) ==
    [raised |-> "None",
     city |-> city,
     dmur_score |-> 0,
     component_scores |-> [mxi_score |-> 0, balance_score |-> 0,
                           density_score |-> 0, diversity_score |-> 0],
     weights |-> Weights(cfg),
     metrics |-> [total_listings |-> 0, total_businesses |-> 0,
                  avg_distance_to_business |-> Inf,
                  residential_to_business_ratio |-> <<0, 1>>,
                  bedroom_distribution |-> <<>>]]

\* the results with the total computed from the rounded component scores
ScoreResultsOfRounded(city, listings, boundary, business_locations, cfg) ==
    LET mxi_score == Round3(CalculateMxiScore(listings, business_locations, cfg))
        balance_score == Round3(CalculateBalanceScore(listings, business_locations, cfg))
        density_score == Round3(CalculateDensityScore(listings, boundary, cfg))
        diversity_score == Round3(CalculateDiversityScore(listings))
        dmur_score == cfg.mxi_weight * mxi_score + cfg.balance_weight * balance_score
                        + cfg.density_weight * density_score
                        + cfg.diversity_weight * diversity_score
    IN [raised |-> "None",
        city |-> city,
        dmur_score |-> RoundDiv(dmur_score, 10),
        component_scores |-> [mxi_score |-> mxi_score,
                              balance_score |-> balance_score,
                              density_score |-> density_score,
                              diversity_score |-> diversity_score],
        weights |-> Weights(cfg),
        metrics |-> [total_listings |-> Len(listings),
                     total_businesses |-> Len(business_locations),
                     avg_distance_to_business |->
                         CalculateAvgDistance(listings, business_locations),
                     residential_to_business_ratio |->
                         <<Len(listings), Max(Len(business_locations), 1)>>,
                     bedroom_distribution |-> ValueCounts(listings)]]

\* the results of calculate_dmur for the listings in downtown.  The weights are
\* in tenths, so the weighted sum is in units of 1 / (10 * ScoreScale); the
\* reported scores are in units of 0.001.
ScoreResults(city, listings, boundary, business_locations, cfg) ==
    LET mxi_score == CalculateMxiScore(listings, business_locations, cfg)
        balance_score == CalculateBalanceScore(listings, business_locations, cfg)
        density_score == CalculateDensityScore(listings, boundary, cfg)
        diversity_score == CalculateDiversityScore(listings)
        dmur_score == cfg.mxi_weight * mxi_score + cfg.balance_weight * balance_score
                        + cfg.density_weight * density_score
                        + cfg.diversity_weight * diversity_score
    IN [raised |-> "None",
        city |-> city,
        dmur_score |-> RoundDiv(dmur_score, ScoreScale \div 100),
        component_scores |-> [mxi_score |-> Round3(mxi_score),
                              balance_score |-> Round3(balance_score),
                              density_score |-> Round3(density_score),
                              diversity_score |-> Round3(diversity_score)],
        weights |-> Weights(cfg),
        metrics |-> [total_listings |-> Len(listings),
                     total_businesses |-> Len(business_locations),
                     avg_distance_to_business |->
                         CalculateAvgDistance(listings, business_locations),
                     residential_to_business_ratio |->
                         <<Len(listings), Max(Len(business_locations), 1)>>,
                     bedroom_distribution |-> ValueCounts(listings)]]

\* calculate_dmur with no listing in downtown treated as an error
CalculateDmurResultsRaising(listings_data, boundary, business_locations, city, cfg) ==
    LET listings_df == LoadListingsData(listings_data)
        downtown_listings == FilterDowntownListings(listings_df, boundary)
    IN IF downtown_listings.raised # NoError THEN downtown_listings.raised
       ELSE IF Len(downtown_listings.df.rows) = 0
       THEN Raise("ValueError", "No residential listings found in downtown area")
       ELSE ScoreResults(city, downtown_listings.df.rows, boundary, business_locations, cfg)

\* DMURCalculator.calculate_dmur: the results, or the exception raised
CalculateDmurResults(listings_data, boundary, business_locations, city, cfg) ==
    LET listings_df == LoadListingsData(listings_data)
        downtown_listings == FilterDowntownListings(listings_df, boundary)
    IN IF downtown_listings.raised # NoError THEN downtown_listings.raised
       ELSE IF Len(downtown_listings.df.rows) = 0 THEN EmptyResults(city, cfg)
       ELSE ScoreResults(city, downtown_listings.df.rows, boundary, business_locations, cfg)

\* ---------------------------------------------------------------- analyzer

\* DowntownAnalyzer.__init__: the fields of a new analyzer
NewAnalyzer(cfg) ==
    /\ config = cfg
    /\ city_name = "None"
    /\ businesses_df = None
    /\ density_grid = None
    /\ density_coords = None
    /\ downtown_boundary = None

ExtractCityName(data) == GetOr(data, "city", "Unknown City")

\* DowntownAnalyzer.analyze(business_data) with business_data a dict
Analyze(data) ==
    LET load == LoadBusinessData(config, data)
        start == <<"Starting downtown boundary analysis", "Loading business data">>
    IN
    /\ args' = [call |-> "analyze", business_data |-> data]
    /\ city_name' = ExtractCityName(data)
    /\ UNCHANGED <<config, dmur_config>>
    /\ IF load.raised # NoError
       THEN /\ ret' = load.raised
            /\ log' = start
            /\ UNCHANGED <<businesses_df, density_grid, density_coords, downtown_boundary>>
       ELSE IF Len(load.df) < 3
       THEN /\ businesses_df' = Some(load.df)
            /\ ret' = Raise("ValueError", "Insufficient business data")
            /\ log' = start
            /\ UNCHANGED <<density_grid, density_coords, downtown_boundary>>
       ELSE
       LET grid == CalculateDensityGrid(load.df, config)
           high == IdentifyHighDensityAreas(grid.density_grid, config)
           sofar == start \o <<"Calculating business density grid",
                               "Identifying high-density areas">>
                    \o (IF high.lowered
                        THEN <<"Too few high-density points, lowering threshold">>
                        ELSE <<>>)
       IN
       /\ businesses_df' = Some(load.df)
       /\ density_grid' = Some(grid.density_grid)
       /\ density_coords' = Some(grid.density_coords)
       /\ \E made \in CreateDowntownBoundary(high.points, config) :
            IF made.raised # NoError
            THEN /\ ret' = made.raised
                 /\ log' = sofar \o made.log
                 /\ UNCHANGED downtown_boundary
            ELSE /\ downtown_boundary' = made.boundary
                 /\ ret' = GenerateResults(city_name', load.df, Val(made.boundary),
                                           Some(grid.density_grid),
                                           Some(grid.density_coords))
                 /\ log' = sofar \o made.log \o <<"Analysis complete">>

\* the getter that answers with an empty frame while there is no boundary
GetBusinessesInDowntownLenient ==
    /\ args' = [call |-> "get_businesses_in_downtown"]
    /\ UNCHANGED <<config, city_name, businesses_df, density_grid, density_coords,
                   downtown_boundary, dmur_config>>
    /\ IF downtown_boundary = None
       THEN /\ ret' = [raised |-> "None", df |-> <<>>]
            /\ log' = <<"Found businesses in downtown area">>
       ELSE /\ ret' = [raised |-> "None",
                       df |-> BusinessesInDowntown(Val(businesses_df), Val(downtown_boundary))]
            /\ log' = <<"Found businesses in downtown area">>

\* DowntownAnalyzer.get_businesses_in_downtown()
GetBusinessesInDowntown ==
    /\ args' = [call |-> "get_businesses_in_downtown"]
    /\ UNCHANGED <<config, city_name, businesses_df, density_grid, density_coords,
                   downtown_boundary, dmur_config>>
    /\ IF downtown_boundary = None
       THEN /\ ret' = Raise("ValueError", "Downtown boundary not created yet")
            /\ log' = <<>>
       ELSE /\ ret' = [raised |-> "None",
                       df |-> BusinessesInDowntown(Val(businesses_df), Val(downtown_boundary))]
            /\ log' = <<"Found businesses in downtown area">>

\* DowntownAnalyzer._generate_results() on the fields of the analyzer
GenerateResultsCall ==
    /\ args' = [call |-> "_generate_results"]
    /\ UNCHANGED <<config, city_name, businesses_df, density_grid, density_coords,
                   downtown_boundary, dmur_config>>
    /\ IF downtown_boundary = None
       THEN /\ ret' = Raise("ValueError", "Downtown boundary not created yet")
            /\ log' = <<>>
       ELSE /\ ret' = GenerateResults(city_name, Val(businesses_df), Val(downtown_boundary),
                                      density_grid, density_coords)
            /\ log' = <<"Found businesses in downtown area">>

\* DMURCalculator.calculate_dmur(listings_data, downtown_boundary,
\* business_locations, city_name) with the boundary and the city of the analyzer
CalculateDmur(listings_data, business_locations) ==
    /\ downtown_boundary # None
    /\ args' = [call |-> "calculate_dmur", listings_data |-> listings_data,
                business_locations |-> business_locations]
    /\ ret' = CalculateDmurResults(listings_data, Val(downtown_boundary),
                                   business_locations, city_name, dmur_config)
    /\ log' = <<"Calculating DMUR score">>
              \o (IF ret'.raised # "None" THEN <<>>
                  ELSE IF ret'.metrics.total_listings = 0
                  THEN <<"No residential listings found in downtown area">>
                  ELSE <<"Found listings in downtown area">>
                       \o ScoreLog(FilterDowntownListings(LoadListingsData(listings_data),
                                                          Val(downtown_boundary)).df.rows,
                                   Val(downtown_boundary), business_locations)
                       \o <<"DMUR score calculated">>)
    /\ UNCHANGED <<config, city_name, businesses_df, density_grid, density_coords,
                   downtown_boundary, dmur_config>>

\* DowntownAnalyzer._is_commercial_business(business)
IsCommercialBusinessCall(business) ==
    /\ args' = [call |-> "_is_commercial_business", business |-> business]
    /\ ret' = [raised |-> "None", value |-> IsCommercialBusiness(business)]
    /\ log' = <<>>
    /\ UNCHANGED <<config, city_name, businesses_df, density_grid, density_coords,
                   downtown_boundary, dmur_config>>

\* DowntownAnalyzer._load_business_data(business_data)
LoadBusinessDataCall(data) ==
    LET load == LoadBusinessData(config, data)
    IN /\ args' = [call |-> "_load_business_data", business_data |-> data]
       /\ IF load.raised # NoError
          THEN /\ ret' = load.raised
               /\ UNCHANGED businesses_df
          ELSE /\ ret' = [raised |-> "None", df |-> load.df]
               /\ businesses_df' = Some(load.df)
       /\ log' = LoadLog(config, data)
       /\ UNCHANGED <<config, city_name, density_grid, density_coords,
                      downtown_boundary, dmur_config>>

\* DowntownAnalyzer._apply_focus_area(df, focus_area) on the analyzer's businesses
ApplyFocusAreaCall(focus_area) ==
    /\ businesses_df # None
    /\ args' = [call |-> "_apply_focus_area", df |-> Val(businesses_df),
                focus_area |-> focus_area]
    /\ ret' = [raised |-> "None", df |-> ApplyFocusArea(Val(businesses_df), focus_area)]
    /\ log' = <<>>
    /\ UNCHANGED <<config, city_name, businesses_df, density_grid, density_coords,
                   downtown_boundary, dmur_config>>

\* DowntownAnalyzer._auto_determine_focus_area(businesses_df) on the analyzer's
\* businesses
AutoDetermineFocusAreaCall ==
    /\ businesses_df # None
    /\ LET auto == AutoDetermineFocusArea(Val(businesses_df))
       IN /\ args' = [call |-> "_auto_determine_focus_area",
                      businesses_df |-> Val(businesses_df)]
          /\ ret' = IF auto.raised = NoError
                    THEN [raised |-> "None", focus_area |-> auto.focus_area]
                    ELSE auto.raised
          /\ log' = AutoFocusLog(Val(businesses_df))
    /\ UNCHANGED <<config, city_name, businesses_df, density_grid, density_coords,
                   downtown_boundary, dmur_config>>

\* DowntownAnalyzer._identify_high_density_areas() on the analyzer's grid
IdentifyHighDensityAreasCall ==
    /\ density_grid # None
    /\ LET high == IdentifyHighDensityAreas(Val(density_grid), config)
       IN /\ args' = [call |-> "_identify_high_density_areas"]
          /\ ret' = [raised |-> "None", points |-> high.points]
          /\ log' = <<"Identifying high-density areas">>
                    \o (IF high.lowered
                        THEN <<"Too few high-density points, lowering threshold">>
                        ELSE <<>>)
    /\ UNCHANGED <<config, city_name, businesses_df, density_grid, density_coords,
                   downtown_boundary, dmur_config>>

\* DowntownAnalyzer._create_downtown_boundary on the nodes P
CreateDowntownBoundaryCall(P) ==
    /\ args' = [call |-> "_create_downtown_boundary", points |-> P]
    /\ \E made \in CreateDowntownBoundary(P, config) :
         /\ log' = made.log
         /\ IF made.raised # NoError
            THEN /\ ret' = made.raised
                 /\ UNCHANGED downtown_boundary
            ELSE /\ ret' = [raised |-> "None", boundary |-> Val(made.boundary)]
                 /\ downtown_boundary' = made.boundary
    /\ UNCHANGED <<config, city_name, businesses_df, density_grid, density_coords,
                   dmur_config>>

\* ---------------------------------------------------------------- inputs

MaxBusinesses == 3

\* the test fixtures' city (40.050 N, 73.954 W) and a polar one, in u
TestCity == [name |-> "Test City", lat |-> 40050, lon |-> -73954]
PolarCity == [name |-> "Polar City", lat |-> 85000, lon |-> -73954]

Business(city, id, dlon, dlat, type, subtype) ==
    [id |-> id, lat |-> city.lat + dlat, lon |-> city.lon + dlon, name |-> "name",
     business_type |-> type, business_subtype |-> subtype]

\* the businesses a city's data is drawn from
Pool(city) ==
    << Business(city, 1, 0, 0, "shop", "clothing"),
       Business(city, 2, 0, 0, "amenity", "restaurant"),
       Business(city, 3, 1, 1, "office", "company"),
       Business(city, 4, 3, 0, "amenity", "playground") >>

RECURSIVE Pick(_, _, _)
\* the records of pool whose index is in S, in the order of pool
Pick(pool, S, i) ==
    IF i > Len(pool) THEN <<>>
    ELSE (IF i \in S THEN <<pool[i]>> ELSE <<>>) \o Pick(pool, S, i + 1)

BusinessData ==
    {[city |-> TestCity.name, businesses |-> Pick(Pool(TestCity), S, 1)] :
        S \in {S \in SUBSET (1 .. 4) : Cardinality(S) <= MaxBusinesses}}
    \cup
    {[businesses |-> <<>>]}

AnalysisConfig(percentile, bandwidth, grid_size, alpha, buffer_distance, commercial_only, auto_focus, focus_area) ==
    [density_threshold_percentile |-> percentile, bandwidth |-> bandwidth,
     grid_size |-> grid_size, alpha |-> alpha, buffer_distance |-> buffer_distance,
     commercial_only |-> commercial_only, auto_focus |-> auto_focus,
     focus_area |-> focus_area]

\* the focus box of the fixture city that holds the offsets 0 .. 2
TestFocus ==
    << TestCity.lat * FocusUnit, TestCity.lon * FocusUnit,
       (TestCity.lat + 2) * FocusUnit, (TestCity.lon + 2) * FocusUnit >>

Configs ==
    { AnalysisConfig(90, 2, 4, 20, 3, TRUE, TRUE, None),
      AnalysisConfig(90, 2, 3, 20, 0, TRUE, FALSE, None),
      AnalysisConfig(90, 1, 3, 4, 0, FALSE, TRUE, None),
      AnalysisConfig(80, 2, 5, 20, 3, FALSE, TRUE, TestFocus),
      \* a grid step of 0.01 degree: a density grid of 2 x 2 nodes or fewer
      AnalysisConfig(90, 2, 10, 20, 3, TRUE, TRUE, None) }

\* DMURConfig(): the weights in tenths, the threshold in u
DefaultDMURConfig ==
    [mxi_weight |-> 4, balance_weight |-> 3, density_weight |-> 2, diversity_weight |-> 1,
     max_distance_threshold |-> 5, optimal_residential_ratio |-> 25,
     urban_density_benchmark |-> 1000]

\* ---------------------------------------------------------------- Spec

Init ==
    /\ \E cfg \in Configs : NewAnalyzer(cfg)
    /\ dmur_config = DefaultDMURConfig
    /\ args = [call |-> "__init__"]
    /\ ret = NoError
    /\ log = <<>>

Next ==
    \/ \E data \in BusinessData : Analyze(data)
    \/ GetBusinessesInDowntown

Spec == Init /\ [][Next]_vars

\* ---------------------------------------------------------------- SpecScore
\* The scorer and the results of an analyzer whose fields are set directly, as
\* the unit tests set them.

MaxListings == 2

At(city, dlon, dlat) == <<city.lon + dlon, city.lat + dlat>>

\* sample_downtown_boundary of tests/conftest.py
FixtureBoundary(city) ==
    Polygon({At(city, -6, -5), At(city, 14, -5), At(city, 14, 5), At(city, -6, 5)})

Triangle(city) == Polygon({At(city, 0, 0), At(city, 4, 0), At(city, 0, 4)})

SmallTriangle(city) == Polygon({At(city, 0, 0), At(city, 2, 1), At(city, 1, 2)})

\* Point(..).buffer(0) of test_calculate_density_score_zero_area
EmptyPolygon == Polygon({})

TwoTriangles(city) ==
    UnaryUnion({{At(city, 0, 0), At(city, 4, 0), At(city, 0, 4)},
                {At(city, 4, 0), At(city, 0, 4), At(city, 4, 4)}})

Boundaries(city) ==
    {FixtureBoundary(city), Triangle(city), SmallTriangle(city), EmptyPolygon,
     TwoTriangles(city), Buffer(Triangle(city), 3)}

BusinessRow(city, id, dlon, dlat, type, subtype) ==
    [id |-> id, lat |-> city.lat + dlat, lon |-> city.lon + dlon, name |-> "name",
     type |-> type, subtype |-> subtype]

\* sample_business_df of tests/conftest.py, and a frame with rows inside, on
\* the edge of and outside the triangles
BusinessFrames(city) ==
    { << BusinessRow(city, 1, 4, 0, "amenity", "restaurant"),
         BusinessRow(city, 2, 3, 1, "shop", "clothing"),
         BusinessRow(city, 3, 2, 2, "office", "company"),
         BusinessRow(city, 4, 1, 3, "tourism", "hotel"),
         BusinessRow(city, 5, 0, 4, "craft", "winery") >>,
      << BusinessRow(city, 1, 1, 1, "amenity", "restaurant"),
         BusinessRow(city, 2, 2, 0, "shop", "clothing"),
         BusinessRow(city, 3, 0, 0, "office", "company"),
         BusinessRow(city, 4, 9, 9, "tourism", "hotel") >> }

Listing(city, dlon, dlat, bedrooms, area_sqm, price) ==
    [lat |-> city.lat + dlat, lon |-> city.lon + dlon, bedrooms |-> bedrooms,
     area_sqm |-> area_sqm, price |-> price]

\* three of sample_listings_data of tests/conftest.py, a listing strictly
\* inside the triangles and one outside every boundary
ListingPool(city) ==
    << Listing(city, 4, 0, 1, 50, 2000),
       Listing(city, 3, 1, 2, 75, 3000),
       Listing(city, 2, 2, 0, 35, 1500),
       Listing(city, 1, 1, 2, 60, 2500),
       Listing(city, 20, 20, 1, 50, 2000) >>

\* the frame with the rows of pool at S and without the columns dropped
Lacking(pool, S, dropped) ==
    LET rows == Pick(pool, S, 1)
    IN DataFrame(required_cols \ dropped,
                 [i \in DOMAIN rows |->
                     [col \in DOMAIN rows[i] \ dropped |-> rows[i][col]]])

\* the frame of large units strictly inside the triangles with these bedrooms
LargeUnits(city, bedrooms) ==
    DataFrame(required_cols,
              [i \in DOMAIN bedrooms |-> Listing(city, 1, 1, bedrooms[i], 120, 4000)])

\* the frames with every required column, and frames that lack some: one with
\* a listing inside the triangles, one with a listing outside every boundary,
\* one without coordinates
ListingsData(city) ==
    {DataFrame(required_cols \cup {"listing_type"}, Pick(ListingPool(city), S, 1)) :
        S \in {S \in SUBSET (1 .. 5) : Cardinality(S) <= MaxListings}}
    \cup
    {Lacking(ListingPool(city), {1, 4}, {"price"}),
     Lacking(ListingPool(city), {5}, {"area_sqm", "price"}),
     Lacking(ListingPool(city), {4}, {"lat", "bedrooms"})}
    \cup
    {LargeUnits(city, <<4, 4>>), LargeUnits(city, <<4, 5>>)}

DMURConfig(mxi_weight, balance_weight, density_weight, diversity_weight, max_distance_threshold, optimal_residential_ratio, urban_density_benchmark) ==
    [mxi_weight |-> mxi_weight, balance_weight |-> balance_weight,
     density_weight |-> density_weight, diversity_weight |-> diversity_weight,
     max_distance_threshold |-> max_distance_threshold,
     optimal_residential_ratio |-> optimal_residential_ratio,
     urban_density_benchmark |-> urban_density_benchmark]

\* the default weights, weights that sum to 2.5, and a benchmark below zero
DMURConfigs ==
    { DefaultDMURConfig,
      DMURConfig(10, 5, 5, 5, 2, 1, 100),
      DMURConfig(4, 3, 2, 1, 5, 2, -1000) }

CityOf(name) == IF name = PolarCity.name THEN PolarCity ELSE TestCity

\* the city, the businesses and the boundary an analyzer is given
Scenes ==
    {[city |-> TestCity, df |-> df, boundary |-> boundary] :
        df \in BusinessFrames(TestCity), boundary \in Boundaries(TestCity)}
    \cup
    {[city |-> PolarCity, df |-> df, boundary |-> SmallTriangle(PolarCity)] :
        df \in BusinessFrames(PolarCity)}

InitScore ==
    /\ config = AnalysisConfig(90, 2, 2, 20, 3, TRUE, TRUE, None)
    /\ \E scene \in Scenes :
         /\ city_name = scene.city.name
         /\ businesses_df = Some(scene.df)
         /\ downtown_boundary = Some(scene.boundary)
    /\ density_grid = None
    /\ density_coords = None
    /\ dmur_config \in DMURConfigs
    /\ args = [call |-> "__init__"]
    /\ ret = NoError
    /\ log = <<>>

NextScore ==
    \/ GenerateResultsCall
    \/ GetBusinessesInDowntown
    \/ \E listings_data \in ListingsData(CityOf(city_name)) :
         \E business_locations \in {Val(businesses_df),
                                    BusinessesInDowntown(Val(businesses_df),
                                                         Val(downtown_boundary)),
                                    <<>>} :
            CalculateDmur(listings_data, business_locations)

SpecScore == InitScore /\ [][NextScore]_vars

\* ---------------------------------------------------------------- SpecFilter
\* The commercial filter and the focus-area filter on bounded business lists.

MaxRecords == 2

FilterPool ==
    << Business(TestCity, 1, 0, 0, "shop", "clothing"),
       Business(TestCity, 2, 1, 1, "amenity", "restaurant"),
       Business(TestCity, 3, 2, 2, "amenity", "playground"),
       Business(TestCity, 4, 3, 3, "natural", "tree"),
       Business(TestCity, 5, 0, 3, "building", "commercial"),
       Business(TestCity, 6, 3, 0, "office", ""),
       Business(TestCity, 7, 1, 2, "healthcare", "clinic") >>

FilterData ==
    {[city |-> TestCity.name, businesses |-> Pick(FilterPool, S, 1)] :
        S \in {S \in SUBSET (1 .. 7) : Cardinality(S) <= MaxRecords}}

FilterConfigs ==
    { AnalysisConfig(90, 2, 2, 20, 3, TRUE, FALSE, None),
      AnalysisConfig(90, 2, 2, 20, 3, FALSE, FALSE, None) }

\* the box of the fixture city that holds the offsets 1 .. 3 of both axes
InnerFocus ==
    << (TestCity.lat + 1) * FocusUnit, (TestCity.lon + 1) * FocusUnit,
       (TestCity.lat + 3) * FocusUnit, (TestCity.lon + 3) * FocusUnit >>

FocusAreas == {TestFocus, InnerFocus}

InitFilter ==
    /\ \E cfg \in FilterConfigs : NewAnalyzer(cfg)
    /\ dmur_config = DefaultDMURConfig
    /\ args = [call |-> "__init__"]
    /\ ret = NoError
    /\ log = <<>>

NextFilter ==
    \/ \E i \in DOMAIN FilterPool : IsCommercialBusinessCall(FilterPool[i])
    \/ \E data \in FilterData : LoadBusinessDataCall(data)
    \/ \E focus_area \in FocusAreas : ApplyFocusAreaCall(focus_area)

SpecFilter == InitFilter /\ [][NextFilter]_vars

\* ---------------------------------------------------------------- SpecBoundary
\* _create_downtown_boundary on bounded node sets.

MaxPoints == 4

\* nodes with three on a line, four on a circle and one inside
Nodes == {At(TestCity, 0, 0), At(TestCity, 2, 0), At(TestCity, 0, 2),
          At(TestCity, 2, 2), At(TestCity, 1, 1), At(TestCity, 4, 0)}

NodeSets == {P \in SUBSET Nodes : Cardinality(P) <= MaxPoints}

\* every alpha without a buffer, and a small and a middle alpha with one
BoundaryConfigs ==
    {AnalysisConfig(90, 2, 2, alpha, 0, TRUE, TRUE, None) : alpha \in {-5, 0, 1, 3, 4, 5}}
    \cup
    {AnalysisConfig(90, 2, 2, alpha, 3, TRUE, TRUE, None) : alpha \in {1, 3}}

InitBoundary ==
    /\ \E cfg \in BoundaryConfigs : NewAnalyzer(cfg)
    /\ dmur_config = DefaultDMURConfig
    /\ args = [call |-> "__init__"]
    /\ ret = NoError
    /\ log = <<>>

NextBoundary == \E P \in NodeSets : CreateDowntownBoundaryCall(P)

SpecBoundary == InitBoundary /\ [][NextBoundary]_vars

\* ---------------------------------------------------------------- SpecFocus
\* The automatic focus area on business lists of every length up to MaxCrowd.

MaxCrowd == 11

\* a far business, then businesses that are 0.001 degree apart at most
CrowdMember(i) ==
    IF i = 1 THEN Business(TestCity, 1, 100, 150, "shop", "clothing")
    ELSE Business(TestCity, i, i % 2, 0, IF i = 4 THEN "natural" ELSE "shop", "clothing")

Crowd(n) == [i \in 1 .. n |-> CrowdMember(i)]

\* ten businesses at the offsets places, each a pair <<dlon, dlat>>
Scattered(places) ==
    [i \in DOMAIN places |->
        Business(TestCity, i, places[i][1], places[i][2], "shop", "clothing")]

\* businesses over 0.19 degree by 0.19 degree, no ten of them close together:
\* the fullest bin in the last row and column of the histogram, and two
\* equally full bins inside it
ScatterData ==
    {[city |-> TestCity.name, businesses |-> Scattered(places)] :
        places \in { << <<0, 0>>, <<190, 190>>, <<189, 188>>, <<188, 189>>, <<57, 74>>,
                        <<20, 130>>, <<130, 20>>, <<100, 100>>, <<150, 60>>, <<30, 170>> >>,
                     << <<0, 0>>, <<190, 190>>, <<135, 75>>, <<136, 76>>, <<55, 95>>,
                        <<56, 96>>, <<130, 20>>, <<100, 100>>, <<150, 60>>, <<30, 170>> >> }}

\* n businesses that are 0.001 degree apart at most, far from the fixture
\* city's centre, then m such businesses at the centre
TwinCrowds(n, m) ==
    [i \in 1 .. (n + m) |->
        IF i <= n THEN Business(TestCity, i, 100 + (i % 2), 150, "shop", "clothing")
        ELSE Business(TestCity, i, i % 2, 0, "shop", "clothing")]

\* two clusters of the same size, and a smaller one before a larger one
TwinData ==
    {[city |-> TestCity.name, businesses |-> TwinCrowds(MinSamples, m)] :
        m \in {MinSamples, MinSamples + 1}}

FocusData ==
    {[city |-> TestCity.name, businesses |-> Crowd(n)] : n \in 0 .. MaxCrowd}
    \cup FilterData \cup ScatterData \cup TwinData

FocusConfigs ==
    { AnalysisConfig(90, 2, 2, 20, 3, TRUE, TRUE, None),
      AnalysisConfig(90, 2, 2, 20, 3, FALSE, TRUE, None),
      AnalysisConfig(90, 2, 2, 20, 3, FALSE, FALSE, None) }

InitFocus ==
    /\ \E cfg \in FocusConfigs : NewAnalyzer(cfg)
    /\ dmur_config = DefaultDMURConfig
    /\ args = [call |-> "__init__"]
    /\ ret = NoError
    /\ log = <<>>

NextFocus ==
    \/ \E data \in FocusData : LoadBusinessDataCall(data)
    \/ AutoDetermineFocusAreaCall

SpecFocus == InitFocus /\ [][NextFocus]_vars

\* ---------------------------------------------------------------- SpecDensity
\* _identify_high_density_areas on an analyzer whose density grid is set
\* directly, as test_identify_high_density_areas sets it.

MaxNodes == 4

\* the densities of the test's grid
Densities == 1 .. 4

\* the nodes of a grid of n nodes: two rows when n is even and above 2, as in
\* the test, or one row
Lattice(n) ==
    IF n > 2 /\ n % 2 = 0
    THEN [lat_range |-> {TestCity.lat, TestCity.lat + 100},
          lon_range |-> {TestCity.lon + 100 * k : k \in 1 .. (n \div 2)}]
    ELSE [lat_range |-> {TestCity.lat},
          lon_range |-> {TestCity.lon + 100 * k : k \in 1 .. n}]

GridNodes(n) == Lattice(n).lon_range \X Lattice(n).lat_range

\* every assignment of densities to the nodes of the grid of n nodes
Grids(n) == {{<<node, density[node]>> : node \in GridNodes(n)} :
                density \in [GridNodes(n) -> Densities]}

Percentiles == {0, 50, 70, 80, 90, 100}

InitDensity ==
    /\ \E percentile \in Percentiles :
         config = AnalysisConfig(percentile, 2, 100, 20, 3, TRUE, TRUE, None)
    /\ city_name = TestCity.name
    /\ \E df \in BusinessFrames(TestCity) : businesses_df = Some(df)
    /\ \E n \in 1 .. MaxNodes :
         /\ density_grid \in {Some(grid) : grid \in Grids(n)}
         /\ density_coords = Some(Lattice(n))
    /\ downtown_boundary = None
    /\ dmur_config = DefaultDMURConfig
    /\ args = [call |-> "__init__"]
    /\ ret = NoError
    /\ log = <<>>

NextDensity == IdentifyHighDensityAreasCall

SpecDensity == InitDensity /\ [][NextDensity]_vars

\* ---------------------------------------------------------------- SpecLoad
\* _load_business_data on records that are well formed, that lack a key, that
\* lie on the equator or the prime meridian, and on the crowds of SpecFocus,
\* under every combination of commercial_only, auto_focus and focus_area.

MaxLoad == 2

\* the dict without one of its keys
Without(business, key) == [k \in DOMAIN business \ {key} |-> business[k]]

\* the dict with another value at one of its keys
With(business, key, value) == [business EXCEPT ![key] = value]

\* well-formed records next to records that lack a key or hold a zero coordinate
LoadPool ==
    << Business(TestCity, 1, 0, 0, "shop", "clothing"),
       Without(Business(TestCity, 2, 1, 0, "shop", "clothing"), "id"),
       Business(TestCity, 3, 1, 1, "amenity", "restaurant"),
       With(Business(TestCity, 4, 1, 0, "shop", "clothing"), "lat", 0),
       Business(TestCity, 5, 0, 2, "building", "commercial"),
       Without(Business(TestCity, 6, 2, 1, "shop", "clothing"), "business_type"),
       Business(TestCity, 7, 3, 0, "leisure", "fitness_centre"),
       With(Business(TestCity, 8, 0, 1, "office", "company"), "lon", 0),
       Without(Business(TestCity, 9, 1, 2, "shop", "clothing"), "name"),
       Business(TestCity, 10, 2, 2, "office", "company"),
       Without(Business(TestCity, 11, 2, 1, "shop", "clothing"), "business_subtype"),
       Without(Business(TestCity, 12, 1, 1, "shop", "clothing"), "lat") >>

\* the positions of k records of the pool that follow one another from
\* position i on, the first following the last
Window(i, k) == {((i + j - 1) % Len(LoadPool)) + 1 : j \in 0 .. (k - 1)}

LoadData ==
    {[city |-> TestCity.name, businesses |-> Pick(LoadPool, Window(i, k), 1)] :
        i \in DOMAIN LoadPool, k \in 0 .. MaxLoad}
    \cup
    {[city |-> TestCity.name, businesses |-> Crowd(n)] : n \in {MaxCrowd - 1, MaxCrowd}}
    \cup
    \* a restaurant, a commercial building and a fitness centre
    {[city |-> TestCity.name, businesses |-> Pick(LoadPool, {3, 5, 7}, 1)]}

\* the box of the fixture city that holds the offsets 0 .. 2 of the latitude
\* and 1 .. 3 of the longitude
EastFocus ==
    << TestCity.lat * FocusUnit, (TestCity.lon + 1) * FocusUnit,
       (TestCity.lat + 2) * FocusUnit, (TestCity.lon + 3) * FocusUnit >>

LoadConfigs ==
    {AnalysisConfig(90, 2, 2, 20, 3, commercial_only, auto_focus, focus_area) :
        commercial_only \in BOOLEAN, auto_focus \in BOOLEAN,
        focus_area \in {None, EastFocus}}

InitLoad ==
    /\ \E cfg \in LoadConfigs : NewAnalyzer(cfg)
    /\ dmur_config = DefaultDMURConfig
    /\ args = [call |-> "__init__"]
    /\ ret = NoError
    /\ log = <<>>

NextLoad ==
    \/ \E data \in LoadData : LoadBusinessDataCall(data)
    \/ \E i \in DOMAIN LoadPool : IsCommercialBusinessCall(LoadPool[i])

SpecLoad == InitLoad /\ [][NextLoad]_vars

\* ---------------------------------------------------------------- SpecCli
\* scripts/calculate_dmur.py: main() on bounded command lines.  A weight is a
\* whole number of thousandths.  args is the parsed command line, ret the
\* exit status of the process with the files it read and the file it wrote,
\* log the lines it printed; the analyzer fields are those of the analyzer
\* main() creates, None when it creates none.

\* DowntownAnalyzer.analyze(data, city) of a new analyzer: the fields it
\* assigns and the results, or the exception raised
AnalysisRuns(cfg, city, data) ==
    LET load == LoadBusinessData(cfg, data)
        run(raised, df, grid, coords, boundary, results) ==
            [raised |-> raised, businesses_df |-> df, density_grid |-> grid,
             density_coords |-> coords, downtown_boundary |-> boundary, results |-> results]
    IN IF load.raised # NoError
       THEN {run(load.raised, None, None, None, None, None)}
       ELSE IF Len(load.df) < 3
       THEN {run(Raise("ValueError", "Insufficient business data"),
                 Some(load.df), None, None, None, None)}
       ELSE LET grid == CalculateDensityGrid(load.df, cfg)
                high == IdentifyHighDensityAreas(grid.density_grid, cfg)
            IN {IF made.raised # NoError
                THEN run(made.raised, Some(load.df), Some(grid.density_grid),
                         Some(grid.density_coords), None, None)
                ELSE run(NoError, Some(load.df), Some(grid.density_grid),
                         Some(grid.density_coords), made.boundary,
                         Some(GenerateResults(city, load.df, Val(made.boundary),
                                              Some(grid.density_grid),
                                              Some(grid.density_coords)))) :
                  made \in CreateDowntownBoundary(high.points, cfg)}

\* calculate_dmur under a configuration whose weights are thousandths
CalculateDmurMilli(listings_data, boundary, business_locations, city, cfg) ==
    LET results == CalculateDmurResults(listings_data, boundary, business_locations, city, cfg)
        listings == FilterDowntownListings(LoadListingsData(listings_data), boundary).df.rows
        dmur_score ==
            cfg.mxi_weight * CalculateMxiScore(listings, business_locations, cfg)
              + cfg.balance_weight * CalculateBalanceScore(listings, business_locations, cfg)
              + cfg.density_weight * CalculateDensityScore(listings, boundary, cfg)
              + cfg.diversity_weight * CalculateDiversityScore(listings)
    IN IF results.raised # "None" \/ results.metrics.total_listings = 0 THEN results
       ELSE [results EXCEPT !.dmur_score = RoundDiv(dmur_score, ScoreScale)]

\* the tolerance of the weight check, 0.001
WeightTolerance == 1

TotalWeight(argv) ==
    argv.mxi_weight + argv.balance_weight + argv.density_weight + argv.diversity_weight

\* the check with a tolerance of 0.01
WeightsRejectedLoosely(argv) ==
    IF Abs(TotalWeight(argv) - 1000) > 10 * WeightTolerance THEN {TRUE} ELSE {FALSE}

\* abs(total_weight - 1.0) > 0.001 on floats: a sum that is 0.001 off is on
\* one side or the other of the comparison, as the rounding of the sum and of
\* the difference falls (0.4 + 0.3 + 0.2 + 0.101 is accepted, 0.401 + 0.3 +
\* 0.2 + 0.1 and 0.399 + 0.3 + 0.2 + 0.1 are rejected)
WeightsRejected(argv) ==
    LET off == Abs(TotalWeight(argv) - 1000)
    IN IF off > WeightTolerance THEN {TRUE}
       ELSE IF off = WeightTolerance THEN {TRUE, FALSE}
       ELSE {FALSE}

\* AnalysisConfig()
DefaultAnalysisConfig == AnalysisConfig(90, 2, 2, 20, 3, TRUE, TRUE, None)

\* DataValidator.validate_listing_data on a frame read from a file: the
\* columns of a file without rows are not numeric
ValidListingData(frame) ==
    /\ required_cols \subseteq frame.columns
    /\ frame.rows # <<>>
    /\ \A i \in DOMAIN frame.rows :
         LET row == frame.rows[i]
         IN /\ row.lat >= -90000 /\ row.lat <= 90000
            /\ row.lon >= -180000 /\ row.lon <= 180000
            /\ row.bedrooms >= 0
            /\ row.area_sqm > 0
            /\ row.price > 0

\* city_name.lower().replace(" ", "_").replace(",", "") on the cities of the model
CitySafe(city) ==
    CASE city = "Test City" -> "test_city"
      [] city = "Unknown City" -> "unknown_city"
      [] city = "Springfield, IL" -> "springfield_il"

\* what main() leaves: the exit status, the input files read, the output
\* file written, the lines printed and the fields of the analyzer
Exit(argv, status, opened, written, printed, run, calculator) ==
    /\ args' = [call |-> "main", argv |-> argv]
    /\ ret' = [raised |-> "None", status |-> status, opened |-> opened, written |-> written]
    /\ log' = printed
    /\ city_name' = IF run = None THEN "None"
                    ELSE GetOr(argv, "city_name", ExtractCityName(argv.businesses.data))
    /\ businesses_df' = IF run = None THEN None ELSE Val(run).businesses_df
    /\ density_grid' = IF run = None THEN None ELSE Val(run).density_grid
    /\ density_coords' = IF run = None THEN None ELSE Val(run).density_coords
    /\ downtown_boundary' = IF run = None THEN None ELSE Val(run).downtown_boundary
    /\ dmur_config' = calculator
    /\ UNCHANGED config

\* main() of scripts/calculate_dmur.py with the parsed command line argv
Main(argv) ==
    IF ~argv.businesses.exists
    THEN Exit(argv, 1, <<>>, None, <<"Business file error">>, None, None)
    ELSE IF ~argv.listings.exists
    THEN Exit(argv, 1, <<>>, None, <<"Listings file error">>, None, None)
    ELSE \E rejected \in WeightsRejected(argv) :
    IF rejected
    THEN Exit(argv, 1, <<>>, None, <<"Error: Weights must sum to 1.0">>, None, None)
    ELSE IF argv.listings.suffix \notin {".csv", ".json"}
    THEN Exit(argv, 1, <<"businesses">>, None,
              <<"Error: Unsupported listings file format">>, None, None)
    ELSE IF ~ValidListingData(argv.listings.frame)
    THEN Exit(argv, 1, <<"businesses", "listings">>, None,
              <<"Listings data validation errors">>, None, None)
    ELSE
    LET city == GetOr(argv, "city_name", ExtractCityName(argv.businesses.data))
        given == Has(argv, "downtown_boundary")
        opened == <<"businesses", "listings">> \o (IF given THEN <<"boundary">> ELSE <<>>)
        computing == IF given THEN <<>> ELSE <<"Computing downtown boundary...">>
        calculator == DMURConfig(argv.mxi_weight, argv.balance_weight, argv.density_weight,
                                 argv.diversity_weight, argv.max_distance,
                                 argv.optimal_ratio, DefaultDMURConfig.urban_density_benchmark)
    IN \E run \in AnalysisRuns(DefaultAnalysisConfig, city, argv.businesses.data) :
         IF run.raised # NoError
         THEN Exit(argv, 1, opened, None, computing \o <<"Error">>, Some(run), None)
         ELSE
         LET downtown_boundary_used ==
                 IF given THEN argv.downtown_boundary ELSE Val(run.results).downtown_boundary
             dmur_results ==
                 CalculateDmurMilli(argv.listings.frame, downtown_boundary_used,
                                    Val(run.results).downtown_businesses_df, city, calculator)
             output == IF Has(argv, "output") THEN argv.output
                       ELSE "data/output/" \o CitySafe(city) \o "_dmur_results.json"
         IN Exit(argv, 0, opened, Some([path |-> output, results |-> dmur_results]),
                 computing
                   \o (IF given THEN <<>> ELSE <<"Downtown boundary computed">>)
                   \o <<"Calculating DMUR score...", "DMUR Analysis complete",
                        "Results saved to">>,
                 Some(run), Some(calculator))

\* the business files: three businesses, one business, a file without a city
\* and a path that does not exist
BusinessFiles ==
    [ok |-> [exists |-> TRUE,
             data |-> [city |-> TestCity.name,
                       businesses |-> Pick(Pool(TestCity), {1, 2, 3}, 1)]],
     few |-> [exists |-> TRUE,
              data |-> [city |-> TestCity.name,
                        businesses |-> Pick(Pool(TestCity), {1}, 1)]],
     unnamed |-> [exists |-> TRUE,
                  data |-> [businesses |-> Pick(Pool(TestCity), {1, 2, 3}, 1)]],
     missing |-> [exists |-> FALSE]]

\* the listings files: a CSV and a JSON file, a file of another format, a CSV
\* file without the price column and a path that does not exist
ListingFiles ==
    [csv |-> [exists |-> TRUE, suffix |-> ".csv",
              frame |-> DataFrame(required_cols, Pick(ListingPool(TestCity), {1, 4}, 1))],
     json |-> [exists |-> TRUE, suffix |-> ".json",
               frame |-> DataFrame(required_cols, Pick(ListingPool(TestCity), {2, 5}, 1))],
     txt |-> [exists |-> TRUE, suffix |-> ".txt",
              frame |-> DataFrame(required_cols, Pick(ListingPool(TestCity), {1}, 1))],
     lacking |-> [exists |-> TRUE, suffix |-> ".csv",
                  frame |-> Lacking(ListingPool(TestCity), {1, 4}, {"price"})],
     missing |-> [exists |-> FALSE]]

\* the parsed command line: the two required files, the weights with the
\* defaults of the other options, and the options given
Argv(businesses, listings, weights, options) ==
    options @@
    [businesses |-> businesses, listings |-> listings,
     mxi_weight |-> weights[1], balance_weight |-> weights[2],
     density_weight |-> weights[3], diversity_weight |-> weights[4],
     max_distance |-> 5, optimal_ratio |-> 25]

\* the default weights
DefaultWeights == <<400, 300, 200, 100>>

\* weights whose sum is 1, is 0.001 or 0.002 off, is far off and is 0
WeightChoices ==
    {400, 401, 402, 398, 0, 1000} \X {300, 0} \X {200, 0} \X {100, 99, 0}

NoOption == [o \in {} |-> o]

CommandLines ==
    {Argv(BusinessFiles.ok, listings, weights, NoOption) :
        listings \in {ListingFiles.csv, ListingFiles.missing}, weights \in WeightChoices}
    \cup
    {Argv(businesses, listings, DefaultWeights, NoOption) :
        businesses \in {BusinessFiles[f] : f \in DOMAIN BusinessFiles},
        listings \in {ListingFiles[f] : f \in DOMAIN ListingFiles}}
    \cup
    {Argv(BusinessFiles.ok, ListingFiles.csv, weights, options) :
        weights \in {DefaultWeights, <<402, 300, 200, 100>>},
        options \in {[downtown_boundary |-> Triangle(TestCity)],
                     [output |-> "results.json"],
                     [city_name |-> "Springfield, IL"]}}

InitCli ==
    /\ NewAnalyzer(DefaultAnalysisConfig)
    /\ dmur_config = None
    /\ args = [call |-> "__init__"]
    /\ ret = NoError
    /\ log = <<>>

NextCli == \E argv \in CommandLines : Main(argv)

SpecCli == InitCli /\ [][NextCli]_vars

\* ---------------------------------------------------------------- SpecFetch
\* BusinessFetcher._execute_query, one step of it at a time: args holds its
\* arguments, its local variables attempt and retry_delay and its position
\* pc, log the logger records, the requests and the sleeps in their order.

\* max_retries and the first retry_delay, in seconds
MaxRetries == 3
RetryDelay == 5

\* BusinessQuery.timeout: the default and a shorter one
Timeouts == {180, 60}

\* requests.exceptions.RequestException and the subclasses session.post and
\* response.raise_for_status raise
RequestExceptions == {"ConnectionError", "Timeout", "HTTPError"}

\* what session.post followed by raise_for_status comes to: a response that
\* is returned, a request exception, or an exception of another kind
Outcomes ==
    {[raised |-> "None", status_code |-> 200]}
    \cup {[raised |-> e] : e \in RequestExceptions \cup {"KeyboardInterrupt"}}

\* the except branch that retries after the last attempt too
MayRetryAlways(attempt) == attempt < MaxRetries

\* attempt < max_retries - 1: the failed attempt is not the last
MayRetry(attempt) == attempt < MaxRetries - 1

Executing == args.call = "_execute_query"

\* _execute_query(query, timeout) is called: the locals before the loop
ExecuteQuery(timeout) ==
    /\ Executing => args.pc \in {"returned", "raised"}
    /\ args' = [call |-> "_execute_query", timeout |-> timeout, attempt |-> 0,
                retry_delay |-> RetryDelay, pc |-> "post"]
    /\ ret' = NoError
    /\ log' = <<>>
    /\ UNCHANGED <<config, city_name, businesses_df, density_grid, density_coords,
                   downtown_boundary, dmur_config>>

\* one pass of the try block: the request, and the except branch when the
\* request raises
SessionPost(outcome) ==
    /\ Executing
    /\ args.pc = "post"
    /\ LET tried == log \o <<[event |-> "info", attempt |-> args.attempt + 1],
                              [event |-> "post", timeout |-> args.timeout + 30,
                               outcome |-> outcome.raised]>>
       IN IF outcome.raised = "None"
          THEN /\ ret' = [raised |-> "None", response |-> outcome]
               /\ log' = tried
               /\ args' = [args EXCEPT !.pc = "returned"]
          ELSE IF outcome.raised \in RequestExceptions /\ MayRetry(args.attempt)
          THEN /\ ret' = ret
               /\ log' = tried \o <<[event |-> "warning", delay |-> args.retry_delay]>>
               /\ args' = [args EXCEPT !.pc = "sleep"]
          ELSE /\ ret' = Raise(outcome.raised, "")
               /\ log' = tried
               /\ args' = [args EXCEPT !.pc = "raised"]
    /\ UNCHANGED <<config, city_name, businesses_df, density_grid, density_coords,
                   downtown_boundary, dmur_config>>

\* time.sleep(retry_delay); retry_delay *= 2; and the next pass of the loop,
\* or its end after max_retries passes
TimeSleep ==
    /\ Executing
    /\ args.pc = "sleep"
    /\ log' = log \o <<[event |-> "sleep", seconds |-> args.retry_delay]>>
    /\ IF args.attempt + 1 < MaxRetries
       THEN /\ args' = [args EXCEPT !.attempt = @ + 1, !.retry_delay = @ * 2, !.pc = "post"]
            /\ ret' = ret
       ELSE /\ args' = [args EXCEPT !.retry_delay = @ * 2, !.pc = "returned"]
            /\ ret' = [raised |-> "None", response |-> None]
    /\ UNCHANGED <<config, city_name, businesses_df, density_grid, density_coords,
                   downtown_boundary, dmur_config>>

InitFetch ==
    /\ NewAnalyzer(DefaultAnalysisConfig)
    /\ dmur_config = DefaultDMURConfig
    /\ args = [call |-> "__init__"]
    /\ ret = NoError
    /\ log = <<>>

NextFetch ==
    \/ \E timeout \in Timeouts : ExecuteQuery(timeout)
    \/ \E outcome \in Outcomes : SessionPost(outcome)
    \/ TimeSleep

SpecFetch == InitFetch /\ [][NextFetch]_vars

\* ---------------------------------------------------------------- properties

PointOf(row) == <<row.lon, row.lat>>

\* the rows of the listings passed to calculate_dmur that the boundary contains
DowntownRows ==
    SelectSeq(args.listings_data.rows,
              LAMBDA row : Contains(Val(downtown_boundary), PointOf(row)))

ScoreCalled == args.call = "calculate_dmur"
HasRequiredColumns == required_cols \subseteq args.listings_data.columns
ScoreReturned == ScoreCalled /\ ret.raised = "None"
ResultsReturned == args.call = "_generate_results" /\ ret.raised = "None"

WeightSum ==
    dmur_config.mxi_weight + dmur_config.balance_weight
        + dmur_config.density_weight + dmur_config.diversity_weight

\* the weighted sum of the component scores as reported, in units of 0.0001
WeightedReported ==
    ret.weights.mxi_weight * ret.component_scores.mxi_score
        + ret.weights.balance_weight * ret.component_scores.balance_score
        + ret.weights.density_weight * ret.component_scores.density_score
        + ret.weights.diversity_weight * ret.component_scores.diversity_score

\* the weighted sum of the component scores before rounding, in units of 0.00001
WeightedUnrounded ==
    dmur_config.mxi_weight
          * CalculateMxiScore(DowntownRows, args.business_locations, dmur_config)
        + dmur_config.balance_weight
          * CalculateBalanceScore(DowntownRows, args.business_locations, dmur_config)
        + dmur_config.density_weight
          * CalculateDensityScore(DowntownRows, Val(downtown_boundary), dmur_config)
        + dmur_config.diversity_weight * CalculateDiversityScore(DowntownRows)

\* C1: whenever fewer than 3 businesses remain after the filters, analyze fails
\* with 'Insufficient business data' and computes no density grid.
C1_InsufficientData ==
    (/\ args.call = "analyze"
     /\ Len(CommercialFilter(config, args.business_data.businesses)) < 3)
        => /\ ret = Raise("ValueError", "Insufficient business data")
           /\ \A i \in DOMAIN log : log[i] # "Calculating business density grid"

\* C2: with the required columns present and no listing contained in the
\* boundary, calculate_dmur returns a result whose dmur_score, four component
\* scores and total_listings are all 0.
C2_NoListingsAllZero ==
    (ScoreCalled /\ HasRequiredColumns /\ DowntownRows = <<>>)
        => /\ ret.raised = "None"
           /\ ret.dmur_score = 0
           /\ \A k \in DOMAIN ret.component_scores : ret.component_scores[k] = 0
           /\ ret.metrics.total_listings = 0

C2_Witness ==
    /\ ScoreReturned
    /\ args.listings_data.rows # <<>>
    /\ DowntownRows = <<>>
    /\ args.business_locations # <<>>
    /\ WeightSum # 10
    /\ ret.dmur_score = 0

PositiveConfig ==
    /\ dmur_config.max_distance_threshold > 0
    /\ dmur_config.optimal_residential_ratio > 0
    /\ dmur_config.urban_density_benchmark > 0

\* C3: for downtown listings that are not empty and a configuration with
\* positive threshold, ratio and benchmark, each reported component score lies
\* in [0, 1].
C3_ComponentsInUnitInterval ==
    (ScoreReturned /\ ret.metrics.total_listings > 0 /\ PositiveConfig)
        => \A k \in DOMAIN ret.component_scores :
               0 <= ret.component_scores[k] /\ ret.component_scores[k] <= 1000

C3_Witness ==
    /\ ScoreReturned
    /\ ret.metrics.total_listings > 0
    /\ PositiveConfig
    /\ args.business_locations # <<>>
    /\ ret.component_scores.density_score = 1000
    /\ ret.component_scores.mxi_score \in 1 .. 999

\* C4 as stated: the reported dmur_score is the weighted sum of the reported
\* component scores.
C4_WeightedSumOfReported ==
    ScoreReturned => 10 * ret.dmur_score = WeightedReported

\* C4 as amended: the weights are used as given, neither rejected nor
\* renormalised, and the reported dmur_score is the weighted sum of the
\* component scores before rounding, rounded to 3 decimals.
C4_RoundedWeightedSum ==
    (ScoreCalled /\ HasRequiredColumns)
        => /\ ret.raised = "None"
           /\ ret.weights = Weights(dmur_config)
           /\ DowntownRows # <<>>
                => ret.dmur_score = RoundDiv(WeightedUnrounded, 100)

C4_Witness ==
    /\ ScoreReturned
    /\ ret.metrics.total_listings > 0
    /\ WeightSum # 10
    /\ 10 * ret.dmur_score # WeightedReported

\* C5: with an empty business set and a listing inside the boundary the scorer
\* returns a result whose balance_score and mxi_score are exactly 0.
C5_NoBusinessesZeroScores ==
    (ScoreCalled /\ HasRequiredColumns /\ args.business_locations = <<>>
        /\ DowntownRows # <<>>)
        => /\ ret.raised = "None"
           /\ ret.component_scores.mxi_score = 0
           /\ ret.component_scores.balance_score = 0
           /\ ret.metrics.total_businesses = 0

C5_Witness ==
    /\ ScoreReturned
    /\ args.business_locations = <<>>
    /\ ret.metrics.total_listings > 0
    /\ ret.component_scores.balance_score = 0
    /\ ret.component_scores.mxi_score = 0
    /\ ret.dmur_score > 0

\* the lookup in the two fixed tables
TableLookup(business) ==
    /\ business.business_type \in {"shop", "amenity", "office", "tourism", "craft", "healthcare"}
    /\ business.business_type = "amenity"
         => business.business_subtype \in COMMERCIAL_AMENITIES

C7_FilteringIdempotent ==
    /\ args.call = "_load_business_data"
         => LET kept == CommercialFilter(config, args.business_data.businesses)
            IN /\ CommercialFilter(config, kept) = kept
               /\ ret.raised = "None" => ret.df = [i \in DOMAIN kept |-> Row(kept[i])]
    /\ args.call = "_apply_focus_area"
         => ApplyFocusArea(ret.df, args.focus_area) = ret.df

C7_Witness ==
    /\ args.call = "_apply_focus_area"
    /\ config.commercial_only
    /\ Len(ret.df) > 0
    /\ Len(ret.df) < Len(args.df)

\* p is on a segment of the outline of the unbuffered geometry g
OnOutline(g, p) == \E e \in Outline(g) : p \in e \/ OnOpenSeg(e, p)

StrictlyInside(g, p) == InClosure(g, p) /\ ~OnOutline(g, p)

CountContained(df, g) == Cardinality({i \in DOMAIN df : Contains(g, PointOf(df[i]))})

\* C8: total_businesses is the size of the business set, downtown_businesses
\* the number of its points the boundary contains; a point strictly inside is
\* counted and a point on an edge or a vertex is not, for the businesses of
\* the analyzer and for the listings of the scorer alike.
C8_ContainmentRule ==
    LET g == Val(downtown_boundary)
        df == Val(businesses_df)
    IN /\ ResultsReturned
            => /\ ret.total_businesses = Len(df)
               /\ ret.downtown_businesses = CountContained(df, g)
               /\ ret.downtown_businesses <= ret.total_businesses
               /\ g.buf = 0
                    => ret.downtown_businesses
                         = Cardinality({i \in DOMAIN df : StrictlyInside(g, PointOf(df[i]))})
       /\ (args.call = "get_businesses_in_downtown" /\ ret.raised = "None")
            => /\ Len(ret.df) = CountContained(df, g)
               /\ \A j \in DOMAIN ret.df : Contains(g, PointOf(ret.df[j]))
               /\ g.buf = 0 => \A j \in DOMAIN ret.df : ~OnOutline(g, PointOf(ret.df[j]))
       /\ ScoreReturned
            => /\ ret.metrics.total_listings = CountContained(args.listings_data.rows, g)
               /\ g.buf = 0
                    => ret.metrics.total_listings
                         = Cardinality({i \in DOMAIN args.listings_data.rows :
                               StrictlyInside(g, PointOf(args.listings_data.rows[i]))})

C8_Witness ==
    LET g == Val(downtown_boundary)
        df == Val(businesses_df)
        rows == args.listings_data.rows
    IN /\ ScoreReturned
       /\ g.buf = 0
       /\ \E i \in DOMAIN rows : OnOutline(g, PointOf(rows[i]))
       /\ \E i \in DOMAIN rows : StrictlyInside(g, PointOf(rows[i]))
       /\ ret.metrics.total_listings = 1
       /\ \E i \in DOMAIN df : PointOf(df[i]) \in g.verts
       /\ \E i \in DOMAIN df : StrictlyInside(g, PointOf(df[i]))

\* the area of _generate_results before rounding, in 0.0001 km^2
UnroundedArea == AreaKm2(Area2(Val(downtown_boundary)), Mean(Val(businesses_df), "lat"))

\* C9 as stated: a reported area of 0 comes with a reported density of 0, and
\* any other reported area with the density count / area.
C9_ZeroReportedArea ==
    ResultsReturned
        => IF ret.downtown_area_km2 = 0
           THEN ret.business_density_per_km2 = 0
           ELSE ret.business_density_per_km2
                  = RoundDiv(ret.downtown_businesses * 100000, UnroundedArea)

\* C9 as amended: the density is 0 whenever the area before rounding is 0 or
\* less; otherwise it is the downtown business count divided by the area
\* before rounding, rounded to 1 decimal, also when the reported area, rounded
\* to 2 decimals, is 0.0.
C9_ZeroUnroundedArea ==
    ResultsReturned
        => LET area_km2 == UnroundedArea
           IN /\ ret.downtown_area_km2 = RoundDiv(area_km2, 100)
              /\ area_km2 <= 0 => ret.business_density_per_km2 = 0
              /\ area_km2 > 0
                   => ret.business_density_per_km2
                        = RoundDiv(ret.downtown_businesses * 100000, area_km2)

C9_Witness ==
    /\ ResultsReturned
    /\ ret.downtown_area_km2 = 0
    /\ ret.downtown_businesses > 0
    /\ ret.business_density_per_km2 > 0

BoundaryCalled == args.call = "_create_downtown_boundary"

\* alpha is below the shortest distance of two of the points P, or not positive
SmallAlpha(P, alpha) ==
    alpha <= 0 \/ \A a \in P : \A b \in P \ {a} : alpha * alpha < Dist2(a, b)

\* alpha is greater than every distance of two of the points P
LargeAlpha(P, alpha) ==
    alpha > 0 /\ \A a \in P : \A b \in P : Dist2(a, b) < alpha * alpha

HullBoundary(P) == ApplyBuffer(Polygon(HullVertices(P)), config)

\* the boundary is the union of a whole Delaunay triangulation of P, which
\* covers the convex hull of P
FullTriangulation(P, boundary) ==
    /\ boundary.kind = "union"
    /\ boundary.tris \in DelaunayTriangulations(P)
    /\ boundary = ApplyBuffer(UnaryUnion(boundary.tris), config)
    /\ Area2(UnaryUnion(boundary.tris)) = Area2(Polygon(HullVertices(P)))

AlphaLimits(P) ==
    /\ SmallAlpha(P, config.alpha)
         => ret.raised = "None" /\ ret.boundary = HullBoundary(P)
    /\ LargeAlpha(P, config.alpha)
         => ret.raised = "None" /\ FullTriangulation(P, ret.boundary)

\* C10 as stated: for every set of selected points a small alpha gives the
\* convex hull and an alpha above the largest distance the full triangulation.
C10_AlphaLimitsAnyPoints == BoundaryCalled => AlphaLimits(args.points)

\* C10 as amended: for at least three selected points that are not all on one
\* line, an alpha that is not positive or below the shortest distance of two
\* points gives the convex hull, and an alpha above the largest distance of
\* two points gives the union of a full Delaunay triangulation.
C10_AlphaLimitsOfTriangle ==
    (BoundaryCalled /\ Cardinality(args.points) >= 3 /\ ~Collinear(args.points))
        => AlphaLimits(args.points)

C10_Witness ==
    /\ BoundaryCalled
    /\ Cardinality(args.points) = 4
    /\ LargeAlpha(args.points, config.alpha)
    /\ ret.raised = "None"
    /\ ret.boundary.kind = "union"
    /\ Cardinality(ret.boundary.tris) = 3

\* C11: when the listing data lacks a required column, calculate_dmur raises
\* 'Missing required columns' naming exactly the missing columns, and logs
\* nothing of a filter or a score, whether or not a listing lies in the boundary.
C11_MissingColumnsError ==
    (ScoreCalled /\ ~HasRequiredColumns)
        => /\ ret.raised = "ValueError"
           /\ ret.msg = "Missing required columns"
           /\ ret.cols # <<>>
           /\ {ret.cols[i] : i \in DOMAIN ret.cols} = required_cols \ args.listings_data.columns
           /\ log = <<"Calculating DMUR score">>

C11_Witness ==
    /\ ScoreCalled
    /\ ret.raised = "ValueError"
    /\ ret.cols = <<"price">>
    /\ \E i \in DOMAIN args.listings_data.rows :
         Contains(Val(downtown_boundary), PointOf(args.listings_data.rows[i]))

\* the rows of sub are rows of df, in the order of df
RECURSIVE IsSubSeq(_, _)
IsSubSeq(sub, df) ==
    IF sub = <<>> THEN TRUE
    ELSE IF df = <<>> THEN FALSE
    ELSE IF Head(sub) = Head(df) THEN IsSubSeq(Tail(sub), Tail(df))
    ELSE IsSubSeq(sub, Tail(df))

GetterStep == args'.call = "get_businesses_in_downtown"

\* C12: a call of get_businesses_in_downtown in a state without a boundary
\* raises 'Downtown boundary not created yet' and leaves the business set, the
\* density grid and the boundary as they were; in a state with a boundary,
\* which only a successful analyze creates, it returns rows of the analyzer's
\* business set and changes nothing either.
C12_GetterNeedsBoundary ==
    /\ [](downtown_boundary # None
            => businesses_df # None /\ density_grid # None /\ density_coords # None)
    /\ [][GetterStep
            => /\ UNCHANGED <<businesses_df, density_grid, density_coords, downtown_boundary>>
               /\ downtown_boundary = None
                    => ret' = Raise("ValueError", "Downtown boundary not created yet")
               /\ downtown_boundary # None
                    => /\ ret'.raised = "None"
                       /\ IsSubSeq(ret'.df, Val(businesses_df))]_vars

C12_Witness ==
    /\ args.call = "get_businesses_in_downtown"
    /\ ret.raised = "None"
    /\ Len(ret.df) > 0
    /\ Len(ret.df) < Len(Val(businesses_df))

\* np.min and np.max of the two columns, in focus units
BoundingBox(df) ==
    << SetMin(Column(df, "lat")) * FocusUnit, SetMin(Column(df, "lon")) * FocusUnit,
       SetMax(Column(df, "lat")) * FocusUnit, SetMax(Column(df, "lon")) * FocusUnit >>

\* the rows _load_business_data builds before the focus filter
TempDf(cfg, data) ==
    LET kept == CommercialFilter(cfg, data.businesses)
    IN [i \in DOMAIN kept |-> Row(kept[i])]

\* C13: for 1 to 9 businesses _auto_determine_focus_area logs no clustering and
\* returns exactly (min lat, min lon, max lat, max lon), a box whose filter
\* keeps every row; with auto_focus on and no focus_area _load_business_data
\* keeps every filtered business.
C13_SmallSetBoundingBox ==
    /\ (args.call = "_auto_determine_focus_area"
           /\ Len(args.businesses_df) \in 1 .. 9)
         => /\ ret.raised = "None"
            /\ ret.focus_area = BoundingBox(args.businesses_df)
            /\ log = <<>>
            /\ ApplyFocusArea(args.businesses_df, ret.focus_area) = args.businesses_df
    /\ (args.call = "_load_business_data" /\ config.auto_focus /\ config.focus_area = None
           /\ Len(TempDf(config, args.business_data)) \in 1 .. 9)
         => /\ ret.raised = "None"
            /\ ret.df = TempDf(config, args.business_data)
            /\ businesses_df = Some(ret.df)

C13_Witness ==
    /\ args.call = "_load_business_data"
    /\ config.auto_focus
    /\ config.commercial_only
    /\ Len(args.business_data.businesses) = 10
    /\ ret.raised = "None"
    /\ Len(ret.df) = 9
    /\ BoundingBox(ret.df)[3] - BoundingBox(ret.df)[1] = 150 * FocusUnit

Logged(record) == \E i \in DOMAIN log : log[i] = record

\* C14: when the downtown listings are not empty and all have one bedroom
\* count, the diversity score is exactly 0 and _calculate_diversity_score
\* returns before it evaluates and logs the entropy formula.
C14_SingleTypeZeroDiversity ==
    (ScoreCalled /\ HasRequiredColumns /\ DowntownRows # <<>>
        /\ Cardinality(Column(DowntownRows, "bedrooms")) = 1)
        => /\ ret.raised = "None"
           /\ ret.component_scores.diversity_score = 0
           /\ CalculateDiversityScore(DowntownRows) = 0
           /\ ~Logged("Diversity Score")
           /\ Logged("DMUR score calculated")

C14_Witness ==
    /\ ScoreReturned
    /\ Len(DowntownRows) >= 2
    /\ Cardinality(Column(DowntownRows, "bedrooms")) = 1
    /\ Cardinality(Column(DowntownRows, "area_sqm")) > 1
    /\ ret.component_scores.diversity_score = 0
    /\ ret.dmur_score > 0

\* the boundaries analyze can create from the business set df
BoundariesOf(df) ==
    LET grid == CalculateDensityGrid(df, config)
        high == IdentifyHighDensityAreas(grid.density_grid, config)
    IN {made.boundary : made \in {c \in CreateDowntownBoundary(high.points, config) :
                                      c.raised = NoError}}

\* C15: the density grid and the boundary the analyzer holds were computed
\* from the business set it holds, the one loaded by the most recent analyze
\* call, so get_businesses_in_downtown never tests a business set against the
\* boundary of an earlier run.
C15_NoStateOfEarlierRun ==
    /\ density_grid # None
         => /\ Len(Val(businesses_df)) >= 3
            /\ density_grid = Some(CalculateDensityGrid(Val(businesses_df), config).density_grid)
    /\ downtown_boundary # None
         => /\ Len(Val(businesses_df)) >= 3
            /\ downtown_boundary \in BoundariesOf(Val(businesses_df))

SelectionCalled == args.call = "_identify_high_density_areas"

\* the nodes that qualify at the configured percentile
FirstSelection ==
    HighDensityMask(Val(density_grid), config.density_threshold_percentile)

\* the percentile of the second selection, max(70, p - 20)
SecondPercentile == Max(70, config.density_threshold_percentile - 20)

\* C16: when fewer than 3 nodes qualify at the configured percentile p, the
\* selection is made again at a percentile below p and contains every node of
\* the first selection, for every p of 0 .. 100.
C16_RelaxationLowers ==
    (SelectionCalled /\ Cardinality(FirstSelection) < 3)
        => /\ ret.points = HighDensityMask(Val(density_grid), SecondPercentile)
           /\ SecondPercentile < config.density_threshold_percentile
           /\ FirstSelection \subseteq ret.points

\* C17: the threshold is lowered exactly when the first selection has fewer
\* than 3 nodes, and once: a first selection of 3 nodes or more is returned as
\* it is, and the second selection is returned whatever its size.
C17_SingleRelaxation ==
    SelectionCalled
        => /\ Logged("Too few high-density points, lowering threshold")
                 <=> Cardinality(FirstSelection) < 3
           /\ Cardinality({i \in DOMAIN log :
                   log[i] = "Too few high-density points, lowering threshold"}) <= 1
           /\ Cardinality(FirstSelection) >= 3 => ret.points = FirstSelection
           /\ Cardinality(FirstSelection) < 3
                 => ret.points = HighDensityMask(Val(density_grid), SecondPercentile)

C17_Witness ==
    /\ SelectionCalled
    /\ Cardinality(Val(density_grid)) = 4
    /\ config.density_threshold_percentile = 90
    /\ Logged("Too few high-density points, lowering threshold")
    /\ Cardinality(ret.points) = 1
    /\ Cardinality(HighDensityMask(Val(density_grid), 50)) = 3

\* the log records of the alpha attempt and of the convex hull
AlphaLog == <<"Creating downtown boundary", "Created alpha shape boundary">>

HullLog ==
    <<"Creating downtown boundary", "Alpha shape failed, falling back to convex hull",
      "Created convex hull boundary">>

\* C18: the alpha shape is attempted first; when a triangle of the
\* triangulation survives, the boundary before buffering is the union of
\* exactly the surviving triangles and no convex hull is computed; the convex
\* hull is taken exactly when no triangle survives or the triangulation fails,
\* and then after the failed alpha attempt.
C18_AlphaThenHull ==
    BoundaryCalled
        => LET P == args.points
           IN IF DelaunayTriangulations(P) = {}
              THEN /\ ret.raised = "QhullError"
                   /\ log = SubSeq(HullLog, 1, 2)
              ELSE /\ ret.raised = "None"
                   /\ \E simplices \in DelaunayTriangulations(P) :
                        LET surviving == {t \in simplices : PassesAlpha(t, config.alpha)}
                        IN IF surviving # {}
                           THEN /\ ret.boundary = ApplyBuffer(UnaryUnion(surviving), config)
                                /\ log = AlphaLog \o BufferLog(config)
                           ELSE /\ ret.boundary = HullBoundary(P)
                                /\ log = HullLog \o BufferLog(config)

C18_Witness ==
    /\ BoundaryCalled
    /\ ret.raised = "None"
    /\ ret.boundary.kind = "union"
    /\ Cardinality(ret.boundary.tris) = 1
    /\ Cardinality(args.points) = 4
    /\ \A simplices \in DelaunayTriangulations(args.points) : Cardinality(simplices) >= 2
    /\ ~Logged("Created convex hull boundary")

\* the triangles of the boundary the call made when it is an alpha shape
KeptTriangles == IF ret.boundary.kind = "union" THEN ret.boundary.tris ELSE {}

\* C19 as stated: a triangle is kept exactly when its longest edge is at most
\* alpha.
C19_KeptUpToAlpha ==
    (BoundaryCalled /\ ret.raised = "None")
        => \E simplices \in DelaunayTriangulations(args.points) :
              \A t \in simplices :
                  t \in KeptTriangles
                      <=> (config.alpha >= 0
                             /\ LongestEdge2(t) <= config.alpha * config.alpha)

\* C19 as amended: a triangle is kept exactly when its longest edge is less
\* than alpha; a triangle whose longest edge is alpha or more is discarded.
C19_KeptBelowAlpha ==
    (BoundaryCalled /\ ret.raised = "None")
        => \E simplices \in DelaunayTriangulations(args.points) :
              \A t \in simplices :
                  t \in KeptTriangles
                      <=> (config.alpha > 0
                             /\ LongestEdge2(t) < config.alpha * config.alpha)

C19_Witness ==
    /\ BoundaryCalled
    /\ ret.raised = "None"
    /\ config.alpha > 0
    /\ KeptTriangles # {}
    /\ \E simplices \in DelaunayTriangulations(args.points) :
         /\ KeptTriangles \subseteq simplices
         /\ \E t \in simplices \ KeptTriangles :
               LongestEdge2(t) = config.alpha * config.alpha

\* the nodes the last analyze call passed to _create_downtown_boundary
SelectedNodes == IdentifyHighDensityAreas(Val(density_grid), config).points

\* C20: when fewer than 3 nodes remain after the second selection, analyze
\* ends with the insufficient-data error it raises for fewer than 3
\* businesses; it returns no result and raises no other error.
C20_FewNodesInsufficientData ==
    (args.call = "analyze" /\ Logged("Creating downtown boundary")
        /\ Cardinality(SelectedNodes) < 3)
        => ret = Raise("ValueError", "Insufficient business data")

LoadCalled == args.call = "_load_business_data"

\* the record has coordinates and lacks id, name, business_type or business_subtype
Malformed(business) ==
    /\ ~Falsy(business, "lat")
    /\ ~Falsy(business, "lon")
    /\ MissingKey(business) # "None"

MissingFields(business) ==
    {"id", "name", "business_type", "business_subtype"} \ DOMAIN business

\* C21: when a record with coordinates lacks id, name, business_type or
\* business_subtype, the load either skips it and returns the other records, or
\* ends with an error that names a field the record lacks; it ends with no
\* other exception, with commercial_only on or off.
C21_MalformedRecordRejected ==
    LET businesses == args.business_data.businesses
        malformed == {i \in DOMAIN businesses : Malformed(businesses[i])}
    IN (LoadCalled /\ malformed # {})
         => \/ /\ ret.raised = "None"
               /\ \A j \in DOMAIN ret.df :
                    \E i \in DOMAIN businesses \ malformed : ret.df[j].id = businesses[i].id
            \/ /\ ret.raised # "None"
               /\ \E i \in malformed : ret.msg \in MissingFields(businesses[i])

AutoDetecting == "Auto-detecting downtown focus area using density clustering"

\* min_lat <= lat <= max_lat and min_lon <= lon <= max_lon, in focus units
InBox(row, box) ==
    /\ box[1] <= row.lat * FocusUnit /\ row.lat * FocusUnit <= box[3]
    /\ box[2] <= row.lon * FocusUnit /\ row.lon * FocusUnit <= box[4]

\* C22: a load that returns used the configured focus box when there is one,
\* without running the auto-detection even with auto_focus on; the
\* auto-detected box when there is none and auto_focus is on; no box otherwise.
\* The result holds rows of the loaded set, in their order, and exactly the
\* rows with min_lat <= lat <= max_lat and min_lon <= lon <= max_lon.
C22_FocusPrecedence ==
    (LoadCalled /\ ret.raised = "None")
      => LET loaded == TempDf(config, args.business_data)
             within(box) == SelectSeq(loaded, LAMBDA row : InBox(row, box))
         IN /\ IsSubSeq(ret.df, loaded)
            /\ config.focus_area # None
                 => ret.df = within(config.focus_area) /\ ~Logged(AutoDetecting)
            /\ (config.focus_area = None /\ config.auto_focus)
                 => /\ ret.df = within(AutoDetermineFocusArea(loaded).focus_area)
                    /\ Len(loaded) >= 10 => Logged(AutoDetecting)
            /\ (config.focus_area = None /\ ~config.auto_focus) => ret.df = loaded

\* a box and auto_focus are both configured: the box drops rows of a crowd
\* that the auto-detected box would keep
C22_Witness ==
    /\ LoadCalled
    /\ ret.raised = "None"
    /\ config.focus_area # None
    /\ config.auto_focus
    /\ LET loaded == TempDf(config, args.business_data)
       IN /\ Len(loaded) >= 10
          /\ ret.df # <<>>
          /\ Len(ret.df) < Len(ApplyFocusArea(loaded, AutoDetermineFocusArea(loaded).focus_area))

HistogramFallback ==
    /\ args.call = "_auto_determine_focus_area"
    /\ Logged("Using fallback: peak density area from histogram")
    /\ ret.raised = "None"

\* the 2% of the smaller span that widens the box on every side, in focus units
Padding(df) ==
    (Min(SetMax(Column(df, "lat")) - SetMin(Column(df, "lat")),
         SetMax(Column(df, "lon")) - SetMin(Column(df, "lon"))) * 2 * FocusUnit) \div 100

\* the span of the box along the latitude (from = 1) or the longitude
\* (from = 2) without the padding, in focus units
WindowSpan(from) == ret.focus_area[from + 2] - ret.focus_area[from] - 2 * Padding(args.businesses_df)

\* the span of the column, in focus units
ColumnSpan(col) ==
    (SetMax(Column(args.businesses_df, col)) - SetMin(Column(args.businesses_df, col))) * FocusUnit

\* C23: in the histogram fallback each axis has 20 bins: the window, which is
\* 3 bins wide and 2 at the border of the histogram, spans that many
\* twentieths of the latitude span and of the longitude span.
C23_TwentyBins ==
    HistogramFallback
      => /\ \E n \in {WindowSize - 1, WindowSize} : WindowSpan(1) * 20 = n * ColumnSpan("lat")
         /\ \E n \in {WindowSize - 1, WindowSize} : WindowSpan(2) * 20 = n * ColumnSpan("lon")

\* the bin <<lat index, lon index>> of a row of df in the histogram
BinOfRow(df, j) ==
    << BinOf(df[j].lat, SetMin(Column(df, "lat")),
             SetMax(Column(df, "lat")) - SetMin(Column(df, "lat"))),
       BinOf(df[j].lon, SetMin(Column(df, "lon")),
             SetMax(Column(df, "lon")) - SetMin(Column(df, "lon"))) >>

\* the rows of df with their bins
Binned(df) == {<<j, BinOfRow(df, j)>> : j \in DOMAIN df}

BinCount(df, bin) == Cardinality({e \in Binned(df) : e[2] = bin})

\* the fullest bin; of several, the first in the order of the rows (latitude)
\* and then of the columns (longitude) of the histogram
PeakBin(df) ==
    LET binned == Binned(df)
        occupied == {e[2] : e \in binned}
        count(bin) == Cardinality({e \in binned : e[2] = bin})
        fullest == {bin \in occupied : \A other \in occupied : count(bin) >= count(other)}
    IN CHOOSE bin \in fullest :
           \A other \in fullest :
               bin[1] < other[1] \/ (bin[1] = other[1] /\ bin[2] <= other[2])

\* edge k of the histogram along the latitude (axis = 1) or the longitude
\* (axis = 2) of the businesses of the call, in focus units
EdgeAt(axis, k) ==
    LET col == IF axis = 1 THEN "lat" ELSE "lon"
    IN SetMin(Column(args.businesses_df, col)) * FocusUnit
         + (k * ColumnSpan(col)) \div (HistEdges - 1)

\* the box without its padding runs from edge first to edge last on the axis
WindowIs(axis, first, last) ==
    /\ ret.focus_area[axis] + Padding(args.businesses_df) = EdgeAt(axis, first)
    /\ ret.focus_area[axis + 2] - Padding(args.businesses_df) = EdgeAt(axis, last)

\* C24 as stated: for every position of the fullest bin the box is the window
\* of 3 bins by 3 bins centred on that bin, widened by the padding.
C24_CentredWindow ==
    HistogramFallback
      => LET peak == PeakBin(args.businesses_df)
         IN \A axis \in {1, 2} : WindowIs(axis, peak[axis] - 1, peak[axis] + 2)

\* C24: for every position of the fullest bin (the first when several tie) the
\* box is the part of the window of 3 bins by 3 bins centred on that bin that
\* lies within the histogram (2 bins along an axis on which the bin is the
\* first or the last), widened on every side by 2% of the smaller span; it
\* contains the fullest bin and its edges are edges of the histogram.
C24_ClippedWindow ==
    HistogramFallback
      => LET peak == PeakBin(args.businesses_df)
             last == HistEdges - 2
             padding == Padding(args.businesses_df)
         IN \A axis \in {1, 2} :
               /\ WindowIs(axis, IF peak[axis] = 0 THEN 0 ELSE peak[axis] - 1,
                                 IF peak[axis] = last THEN last + 1 ELSE peak[axis] + 2)
               /\ ret.focus_area[axis] < EdgeAt(axis, peak[axis])
               /\ ret.focus_area[axis + 2] > EdgeAt(axis, peak[axis] + 1)
               /\ ret.focus_area[axis] + padding >= EdgeAt(axis, 0)
               /\ ret.focus_area[axis + 2] - padding <= EdgeAt(axis, last + 1)

\* the fullest bin is the first of two equally full ones, and inside the
\* histogram
C24_Witness ==
    /\ HistogramFallback
    /\ PeakBin(args.businesses_df) = <<7, 13>>
    /\ BinCount(args.businesses_df, <<9, 5>>) = BinCount(args.businesses_df, <<7, 13>>)
    /\ WindowIs(1, 6, 9)
    /\ WindowIs(2, 12, 15)

\* the listings with every bedroom count of 4 or more counted as 4
FiveCategories(listings) ==
    [i \in DOMAIN listings |->
        [listings[i] EXCEPT !.bedrooms = Min(listings[i].bedrooms, 4)]]

\* C25: the diversity score is that of the five categories 0, 1, 2, 3 and 4+:
\* it does not change when every bedroom count of 4 or more is replaced by 4.
C25_FiveCategories ==
    (ScoreReturned /\ HasRequiredColumns /\ DowntownRows # <<>>)
      => ret.component_scores.diversity_score
           = Round3(CalculateDiversityScore(FiveCategories(DowntownRows)))

MainCalled == args.call = "main"

Posts == SelectSeq(log, LAMBDA record : record.event = "post")
Sleeps == SelectSeq(log, LAMBDA record : record.event = "sleep")

RECURSIVE Doubled(_, _)
\* delay doubled times times
Doubled(delay, times) == IF times = 0 THEN delay ELSE Doubled(2 * delay, times - 1)

\* C27: _execute_query makes at most 3 requests; it returns the first response
\* at once; after a failed request that is not the third it waits 5 s, then
\* 10 s, and tries again; the third request failure in a row leaves the call
\* with no further wait; a failure that is not a request error leaves the call
\* at once.
C27_ThreeAttempts ==
    Executing
      => /\ Len(Posts) <= 3
         /\ \A k \in DOMAIN Sleeps : Sleeps[k].seconds = Doubled(5, k - 1)
         /\ Len(Sleeps) = (IF args.pc = "post" THEN Len(Posts) ELSE Len(Posts) - 1)
         /\ \A k \in DOMAIN Posts :
              k < Len(Posts) => Posts[k].outcome \in RequestExceptions
         /\ args.pc = "returned"
              => /\ ret.response # None
                 /\ log[Len(log)].event = "post"
                 /\ Posts[Len(Posts)].outcome = "None"
         /\ args.pc = "raised"
              => /\ log[Len(log)].event = "post"
                 /\ ret.raised = Posts[Len(Posts)].outcome
                 /\ ret.raised \in RequestExceptions => Len(Posts) = 3
         /\ args.pc = "sleep"
              => Len(Posts) < 3 /\ Posts[Len(Posts)].outcome \in RequestExceptions

\* three request failures in a row: two waits of 5 s and 10 s, then the
\* exception of the third failure
C27_Witness ==
    /\ Executing
    /\ args.pc = "raised"
    /\ ret.raised = "Timeout"
    /\ Len(Posts) = 3
    /\ Posts[1].outcome = "HTTPError"
    /\ Len(Sleeps) = 2
    /\ Sleeps[2].seconds = 10

\* the record carries a latitude in [-90, 90] and a longitude in [-180, 180],
\* in u, and passes the commercial filter when it is enabled
Loadable(cfg, business) ==
    /\ Has(business, "lat") /\ Has(business, "lon")
    /\ -90000 <= business.lat /\ business.lat <= 90000
    /\ -180000 <= business.lon /\ business.lon <= 180000
    /\ cfg.commercial_only => IsCommercialBusiness(business)

\* C28: a load without focus selection that returns holds every record of the
\* data that carries a latitude and a longitude in range, 0 included, and that
\* passes the commercial filter when it is enabled.
C28_ZeroCoordinateLoaded ==
    (LoadCalled /\ ret.raised = "None" /\ config.focus_area = None /\ ~config.auto_focus)
        => \A i \in DOMAIN args.business_data.businesses :
              LET business == args.business_data.businesses[i]
              IN (Loadable(config, business) /\ MissingKey(business) = "None")
                    => \E j \in DOMAIN ret.df : ret.df[j].id = business.id

LargestCluster(df) ==
    LET lats == Column(df, "lat")
        lons == Column(df, "lon")
        labels == DBSCANLabels(df, Min(SetMax(lats) - SetMin(lats), SetMax(lons) - SetMin(lons)))
        clusters == {labels[j] : j \in DOMAIN df} \ {-1}
        size(l) == Cardinality({j \in DOMAIN df : labels[j] = l})
        largest == {l \in clusters : \A m \in clusters : size(m) <= size(l)}
    IN {j \in DOMAIN df : labels[j] = SetMin(largest)}

\* C30: when the clustering finds a cluster, the box of the auto-detection
\* holds every row of the largest cluster, the lowest-labelled one on a tie,
\* and the load that filters with this box retains at least as many
\* businesses as that cluster has rows.
C30_BoxHoldsLargestCluster ==
    /\ (args.call = "_auto_determine_focus_area" /\ Logged("Found main cluster"))
         => /\ ret.raised = "None"
            /\ \A j \in LargestCluster(args.businesses_df) :
                  InBox(args.businesses_df[j], ret.focus_area)
    /\ (LoadCalled /\ Logged("Found main cluster"))
         => /\ ret.raised = "None"
            /\ LET temp_df == TempDf(config, args.business_data)
               IN /\ Len(ret.df) >= Cardinality(LargestCluster(temp_df))
                  /\ \A j \in LargestCluster(temp_df) :
                       \E k \in DOMAIN ret.df : ret.df[k] = temp_df[j]

\* a load with auto-detection of two clusters of ten businesses each that
\* retains the ten of the first cluster
C30_Witness ==
    /\ LoadCalled
    /\ Logged("Found main cluster")
    /\ Len(args.business_data.businesses) = 20
    /\ ret.raised = "None"
    /\ Len(ret.df) = 10
    /\ \A k \in DOMAIN ret.df : ret.df[k].id <= 10

====
